---------------------------- MODULE Spec2Model ----------------------------
(***************************************************************************)
(* The occupancy monitoring and session-lifecycle engine of the parking   *)
(* enforcer: ParkingMonitor (src/src/parking_monitor.py), the session     *)
(* store ParkingDatabase (src/database.py), the occupancy decision of     *)
(* CarDetector (src/src/car_detector.py) and the application main loop    *)
(* (src/main.py).                                                          *)
(*                                                                         *)
(* Threads: the monitor loop threads started by start_monitoring, the      *)
(* application main loop, and one caller of start_monitoring /             *)
(* stop_monitoring (the main thread at startup and shutdown, a web request *)
(* afterwards).  A step of a thread is atomic; a blocking call (a frame    *)
(* capture, a detector inference, a camera re-open, a join) is two steps,  *)
(* its start and its return, so that other threads run in between.         *)
(*                                                                         *)
(* Time is a wall clock counted in hours.  Confidences are tenths          *)
(* (5 stands for 0.5).                                                     *)
(***************************************************************************)
EXTENDS Integers, Sequences, FiniteSets, TLC

\* ------------------------------------------------------------------ bounds
\* The most files the image directory holds, and the latest modification time.
MaxFiles == 3
MaxMtime == 2
\* The seconds of an hour (3600 in the code), and the most seconds one
\* iteration of the monitor loop takes (its sleep of one second included).
HourSeconds == 4
MaxIteration == 2
\* The frames the main loop publishes, and the clients of /video_feed.
MaxFrames == 2
MaxReaders == 2
\* The width of a frame in pixels, the brightest pixel value, and the
\* values uuid.uuid4() may return.
MaxWidth == 2
MaxPixel == 1
MaxUuids == 2
\* The largest coordinate of a box the detection model returns.
MaxCoord == 1
MaxTime == 2
MaxSessions == 2
MaxAlerts == 2
MaxBoxes == 2
MaxLoops == 2
\* Config.PARKING_SPOTS lists six spots, ids 1..6; the model has the first
\* NumSpots of them.
NumSpots == 2

\* ------------------------------------------------------ program constants
\* Config.MAX_STORED_IMAGES (1000 in the code).
MAX_STORED_IMAGES == 1
\* Config.CONFIDENCE_THRESHOLD, in tenths.
CONFIDENCE_THRESHOLD == 5
\* Config.SLACK_ALERT_THRESHOLD, in hours (SLACK_ALERT_THRESHOLD=1 in the
\* environment; the default is 5).
SLACK_ALERT_THRESHOLD == 1
\* CarDetector.car_classes: COCO car = 2, bus = 5, truck = 7.
car_classes == {2, 7, 5}

Spots == 1..NumSpots
Loops == 1..MaxLoops
\* SQL NULL / Python None for a time, an id or a path.
NULL == 0 - 1
NoImage == 0

VARIABLES
    sessions,         \* table parking_sessions: row id = index
    alerts,           \* table alerts
    active_sessions,  \* ParkingMonitor.active_sessions: spot -> session id, 0 = no key
    camera,           \* ParkingMonitor.camera is not None
    is_running,       \* ParkingMonitor.is_running
    monitor_thread,   \* ParkingMonitor.monitor_thread: 0 = None, else a loop thread
    slack,            \* SlackIntegration.client is not None
    hw,               \* the camera device: "ok" delivers frames, "bad" does not
    now,              \* wall clock: the local time datetime.now() returns, in hours
    tz,               \* the host's time zone: local time minus UTC, in hours
    pc,               \* position of each thread
    loc,              \* locals of each thread
    ctl,              \* the caller of start_monitoring / stop_monitoring
    rd,               \* a request thread of the web interface reading the map
    det,              \* one call of is_spot_occupied: the model's output and the answer
    fn,               \* one call of another operation taken alone: its inputs and result
    last              \* the handler step just taken (history, for the properties)

vars == <<sessions, alerts, active_sessions, camera, is_running, monitor_thread,
          slack, hw, now, tz, pc, loc, ctl, rd, det, fn, last>>

shared == <<sessions, alerts, active_sessions>>

\* ------------------------------------------------------------- the store
\* A session with end_time IS NULL.
IsActive(s) == s.end_time = NULL

ActiveIds(ss) == {i \in 1..Len(ss) : IsActive(ss[i])}

ActiveIdsOfSpot(ss, spot) == {i \in ActiveIds(ss) : ss[i].spot_id = spot}

\* INSERT INTO parking_sessions (...), start_time = datetime.now().
NewSession(spot, conf, img, t) ==
    [spot_id |-> spot, start_time |-> t, end_time |-> NULL,
     duration |-> NULL, confidence_score |-> conf, image_path |-> img]

\* Fault injection for C5: an insert that loses the evidence image path.
start_parking_session_no_image(ss, spot, conf, img, t) ==
    Append(ss, NewSession(spot, conf, NoImage, t))

\* The table after start_parking_session; the id returned is its length.
start_parking_session(ss, spot, conf, img, t) ==
    Append(ss, NewSession(spot, conf, img, t))

\* Fault injection for C16: a duration counted from the start of the clock.
end_parking_session_since_epoch(ss, id, t) ==
    IF id \in 1..Len(ss)
    THEN [ss EXCEPT ![id].end_time = t, ![id].duration = t]
    ELSE ss

\* end_parking_session: False when the row is missing; else end_time and
\* duration are (over)written, whether or not the session had ended before.
end_parking_session_ok(ss, id) == id \in 1..Len(ss)

end_parking_session(ss, id, t) ==
    IF end_parking_session_ok(ss, id)
    THEN [ss EXCEPT ![id].end_time = t, ![id].duration = t - ss[id].start_time]
    ELSE ss

\* get_active_sessions ... ORDER BY start_time: the ids in an order the query
\* may return them in (rows with equal start_time come in any order).
RECURSIVE OrderedBy(_, _)
OrderedBy(ss, ids) ==
    IF ids = {} THEN {<<>>}
    ELSE LET firsts == {i \in ids : \A j \in ids :
                                      ss[i].start_time <= ss[j].start_time}
         IN  UNION {{<<i>> \o rest : rest \in OrderedBy(ss, ids \ {i})} :
                    i \in firsts}

get_active_sessions(ss) == OrderedBy(ss, ActiveIds(ss))

\* Fault injection for C15: a load that recovers nothing.
LoadInto_nothing(map, ss, ids) == map

\* _load_active_sessions: a later row of a spot overwrites an earlier one.
RECURSIVE LoadInto(_, _, _)
LoadInto(map, ss, ids) ==
    IF ids = <<>> THEN map
    ELSE LoadInto([map EXCEPT ![ss[Head(ids)].spot_id] = Head(ids)], ss, Tail(ids))

_load_active_sessions(ss) ==
    {LoadInto([s \in Spots |-> 0], ss, ids) : ids \in get_active_sessions(ss)}

\* SQLite's julianday('now') when the local time is t: the current time in
\* UTC.
julianday_now(t) == t - tz

\* get_long_parking_sessions: the active sessions for which julianday('now')
\* minus julianday(start_time) exceeds the threshold.  start_time holds the
\* local time datetime.now() returned, which julianday reads as it stands.
get_long_parking_sessions(ss, t) ==
    {i \in ActiveIds(ss) :
        julianday_now(t) - ss[i].start_time > SLACK_ALERT_THRESHOLD}

\* ----------------------------------------------------------- the detector
\* What the model returns for one image: boxes with a class and a confidence.
Classes == {0, 2, 7}
Confs == {4, 5, 8}
Box == [cls : Classes, conf : Confs]
RawLists == UNION {[1..n -> Box] : n \in 0..MaxBoxes}

\* detect_cars_in_frame: keep vehicle classes with confidence >= threshold.
RECURSIVE detect_cars(_)
detect_cars(raw) ==
    IF raw = <<>> THEN <<>>
    ELSE LET b == Head(raw)
         IN  IF b.cls \in car_classes /\ b.conf >= CONFIDENCE_THRESHOLD
             THEN <<b>> \o detect_cars(Tail(raw))
             ELSE detect_cars(Tail(raw))

\* Fault injection for C18: on a tie the last box of maximum confidence.
RECURSIVE best_detection_last(_)
best_detection_last(dets) ==
    IF Len(dets) = 1 THEN dets[1]
    ELSE LET r == best_detection_last(Tail(dets))
         IN  IF dets[1].conf > r.conf THEN dets[1] ELSE r

\* max(detections, key=confidence): the first box of maximum confidence.
RECURSIVE best_detection(_)
best_detection(dets) ==
    IF Len(dets) = 1 THEN dets[1]
    ELSE LET r == best_detection(Tail(dets))
         IN  IF dets[1].conf >= r.conf THEN dets[1] ELSE r

\* Fault injection for C17: an evidence image at the threshold itself.
is_spot_occupied_at_threshold(raw) ==
    LET dets == detect_cars(raw)
    IN  IF dets = <<>>
        THEN [occ |-> FALSE, conf |-> 0, save |-> FALSE]
        ELSE [occ |-> TRUE, conf |-> best_detection(dets).conf,
              save |-> best_detection(dets).conf >= CONFIDENCE_THRESHOLD]

\* is_spot_occupied: (occupied, confidence, whether an evidence image is saved).
is_spot_occupied(raw) ==
    LET dets == detect_cars(raw)
    IN  IF dets = <<>>
        THEN [occ |-> FALSE, conf |-> 0, save |-> FALSE]
        ELSE [occ |-> TRUE, conf |-> best_detection(dets).conf,
              save |-> best_detection(dets).conf > CONFIDENCE_THRESHOLD]


\* save_spot_image: the path of the file written.  The file name (a time
\* stamp and a uuid) is kept as far as it tells the writing thread and the
\* spot.
save_spot_image(t, spot) == t * NumSpots + spot
Images == {save_spot_image(t, spot) : t \in Loops, spot \in Spots}

\* Every answer is_spot_occupied can give.
DetectorResults == {is_spot_occupied(raw) : raw \in RawLists}

\* ------------------------------------------------------------- the threads
\* The application main loop (src/main.py) is thread Main; the others are
\* the monitor loop threads.
Main == 0
Threads == {Main} \cup Loops

\* Calls during which a thread blocks for seconds: a join with timeout=5 on
\* a thread inside one of them can time out.
Blocking == {"read", "reopen", "reread", "detect", "ident", "backoff"}

\* Locals of a thread.  due: DETECTION_INTERVAL seconds have passed since the
\* current_time that last_detection_time holds (the model clock counts
\* hours, so the seconds of the detection cadence are this timer).
NoLoc == [i |-> 0, conf |-> 0, img |-> NoImage, due |-> TRUE, path |-> "none"]

Idle(l) == [NoLoc EXCEPT !.due = l.due]

\* The step just taken: what it did, for which spot, and the evidence image
\* file it wrote (NoImage: none).
\* For an alert scan: ok, the sessions for which send_parking_alert returned
\* True.
NoEvent == [op |-> "none", spot |-> 0, img |-> NoImage, ok |-> {}]

Event(o, s) == [op |-> o, spot |-> s, img |-> NoImage, ok |-> {}]

EventSaving(o, s, img) == [op |-> o, spot |-> s, img |-> img, ok |-> {}]

EventScan(o, ok) == [op |-> o, spot |-> 0, img |-> NoImage, ok |-> ok]

\* Outcomes of one capture_array call on the handle a thread holds: a frame
\* when the device works and the handle is still open, else an empty frame
\* or an exception.
CaptureOutcomes ==
    IF ~camera THEN {"raise"}
    ELSE IF hw = "ok" THEN {"frame"} ELSE {"empty", "raise"}

\* start_camera returns True with the handle kept, or False with it cleared.
StartCameraResult == hw = "ok"

\* The caller of start_monitoring / stop_monitoring.  keys: the
\* list(self.active_sessions.keys()) stop_monitoring still has to go through;
\* atStop: the sessions that were active when stop_monitoring was called
\* (history, for the properties).
CtlIdle == [pc |-> "idle", keys |-> {}, atStop |-> {}]

\* A request thread of the web interface inside get_active_sessions_data.
\* n: the size of the dict when the items() iterator was created; seen: the
\* keys the for loop has visited; view: the session id read for each of them
\* (the answer under construction).
NoRead == [pc |-> "idle", n |-> 0, seen |-> {}, view |-> [s \in Spots |-> 0]]

\* One call of is_spot_occupied under test: raw is what the model returned,
\* res the answer and best the detection picked (NoBox: none).
NoBox == [cls |-> 0, conf |-> 0]

NoCall == [pc |-> "none", raw |-> <<>>, best |-> NoBox,
           res |-> [occ |-> FALSE, conf |-> 0, save |-> FALSE]]

\* No operation is being taken alone.
NoFn == [pc |-> "none"]

\* The time zones of the host: west of UTC, UTC, east of UTC.
Zones == {0 - 1, 0, 1}

\* Threads inside read_frame, and threads inside a detector inference.
camBusy == Cardinality({t \in Threads : pc[t] \in {"read", "reopen", "reread"}})
detBusy == Cardinality({t \in Threads : pc[t] \in {"detect", "ident"}})

TypeOK ==
    /\ sessions \in Seq([spot_id : Spots, start_time : 0..MaxTime,
                         end_time : {NULL} \cup 0..MaxTime,
                         duration : {NULL} \cup (0 - MaxTime)..MaxTime,
                         confidence_score : Confs, image_path : {NoImage} \cup Images])
    /\ Len(sessions) <= MaxSessions
    /\ alerts \in Seq([session_id : 1..MaxSessions, sent_to_slack : BOOLEAN])
    /\ Len(alerts) <= MaxAlerts
    /\ active_sessions \in [Spots -> 0..MaxSessions]
    /\ camera \in BOOLEAN /\ is_running \in BOOLEAN /\ slack \in BOOLEAN
    /\ monitor_thread \in {0} \cup Loops
    /\ hw \in {"ok", "bad"}
    /\ now \in 0..MaxTime
    /\ tz \in Zones
    /\ pc \in [Threads -> {"off", "top", "read", "reopen", "reread", "detect",
                           "ident", "alerts", "backoff"}]
    /\ ctl.pc \in {"unbuilt", "idle", "starting", "joining", "ending"}
    /\ ctl.keys \subseteq Spots
    /\ ctl.atStop \subseteq 1..MaxSessions
    /\ rd.pc \in {"idle", "iter", "raised", "done"}
    /\ rd.n \in 0..NumSpots /\ rd.seen \subseteq 1..MaxSessions
    /\ rd.view \in [Spots -> 0..MaxSessions]
    /\ det.pc \in {"none", "called", "returned"}
    /\ fn.pc \in {"none", "called", "returned", "loop", "mailbox", "ident",
                   "spot", "ending", "evidence"}
    /\ det.raw \in RawLists
    /\ det.best \in {NoBox} \cup Box

\* ------------------------------------------------------------------- Init
\* What an earlier run may have left in the store: nothing, or one session,
\* ended or still active (the process was killed while the spot was taken).
InitStores ==
    {<<>>} \cup
    {<< [NewSession(s, 8, NoImage, 0) EXCEPT !.end_time = e, !.duration = e] >> :
        s \in Spots, e \in {NULL, 0}}

\* Any parking_sessions table an earlier run may have left: up to MaxSessions
\* rows, each ended or still active.
StoredSessions ==
    UNION {{[NewSession(s, 8, NoImage, b) EXCEPT
                !.end_time = e,
                !.duration = IF e = NULL THEN NULL ELSE e - b] :
              s \in Spots, e \in {NULL} \cup b..MaxTime} : b \in 0..MaxTime}

StartupStores == UNION {[1..n -> StoredSessions] : n \in 0..MaxSessions}

\* ParkingMonitor.__init__ up to self.active_sessions = {}: the map is empty
\* and _load_active_sessions has not run.
InitUnbuilt ==
    /\ sessions \in StartupStores
    /\ alerts = <<>>
    /\ active_sessions = [s \in Spots |-> 0]
    /\ camera = FALSE
    /\ is_running = FALSE
    /\ monitor_thread = 0
    /\ slack = FALSE
    /\ hw = "ok"
    /\ now = MaxTime
    /\ tz = 0
    /\ pc = [t \in Threads |-> "off"]
    /\ loc = [t \in Threads |-> NoLoc]
    /\ ctl = [CtlIdle EXCEPT !.pc = "unbuilt"]
    /\ rd = NoRead
    /\ det = NoCall
    /\ fn = NoFn
    /\ last = NoEvent

\* ParkingMonitor.__init__, its last statement: self._load_active_sessions().
Construct ==
    /\ ctl.pc = "unbuilt"
    /\ active_sessions' \in _load_active_sessions(sessions)
    /\ ctl' = CtlIdle
    /\ last' = Event("constructed", 0)
    /\ UNCHANGED <<fn, tz, rd, det, sessions, alerts, camera, is_running, monitor_thread,
                   slack, hw, now, pc, loc>>

\* ParkingMonitor.__init__: no camera, not running, the active sessions of
\* the store loaded into the map.
InitHost ==
    /\ sessions \in InitStores
    /\ alerts = <<>>
    /\ active_sessions \in _load_active_sessions(sessions)
    /\ camera = FALSE
    /\ is_running = FALSE
    /\ monitor_thread = 0
    /\ slack \in BOOLEAN
    /\ hw \in {"ok", "bad"}
    /\ now = 0
    /\ tz \in Zones
    /\ pc = [t \in Threads |-> IF t = Main THEN "top" ELSE "off"]
    /\ loc = [t \in Threads |-> NoLoc]
    /\ ctl = CtlIdle
    /\ rd = NoRead
    /\ det = NoCall
    /\ fn = NoFn
    /\ last = NoEvent

\* The same on a host whose local time is UTC.
InitAny ==
    /\ InitHost
    /\ tz = 0

\* A call of is_spot_occupied on a region for which the model returns raw.
InitDetector ==
    /\ sessions = <<>>
    /\ alerts = <<>>
    /\ active_sessions = [s \in Spots |-> 0]
    /\ camera = TRUE
    /\ is_running = TRUE
    /\ monitor_thread = 0
    /\ slack = FALSE
    /\ hw = "ok"
    /\ now = 0
    /\ tz = 0
    /\ pc = [t \in Threads |-> "off"]
    /\ loc = [t \in Threads |-> NoLoc]
    /\ ctl = CtlIdle
    /\ rd = NoRead
    /\ det \in {[NoCall EXCEPT !.pc = "called", !.raw = raw] : raw \in RawLists}
    /\ fn = NoFn
    /\ last = NoEvent

\* is_spot_occupied returns: the answer, and the best detection it picked
\* among the filtered detections.
CallIsSpotOccupied ==
    /\ det.pc = "called"
    /\ LET dets == detect_cars(det.raw)
       IN  det' = [det EXCEPT !.pc = "returned",
                              !.res = is_spot_occupied(det.raw),
                              !.best = IF dets = <<>> THEN NoBox
                                       ELSE best_detection(dets)]
    /\ UNCHANGED <<fn, tz, sessions, alerts, active_sessions, camera, is_running,
                   monitor_thread, slack, hw, now, pc, loc, ctl, rd, last>>

\* ------------------------------------------------------------ the notifier
\* The program at rest around an operation that is taken alone.
InitAlone ==
    /\ sessions = <<>>
    /\ alerts = <<>>
    /\ active_sessions = [s \in Spots |-> 0]
    /\ camera = FALSE
    /\ is_running = FALSE
    /\ monitor_thread = 0
    /\ slack = FALSE
    /\ hw = "ok"
    /\ now = 0
    /\ tz = 0
    /\ pc = [t \in Threads |-> "off"]
    /\ loc = [t \in Threads |-> NoLoc]
    /\ ctl = CtlIdle
    /\ rd = NoRead
    /\ det = NoCall
    /\ last = NoEvent

\* How one Slack API call ends: it succeeds, raises SlackApiError, or raises
\* another exception (the connection fails, the file cannot be opened).
Outcomes == {"ok", "api_error", "error"}

\* The result of a notifier operation: the value returned, the deliveries
\* attempted in order, and whether an exception left the operation.
Result(ret, attempts, raised) ==
    [ret |-> ret, attempts |-> attempts, raised |-> raised]

\* _send_text_message: chat_postMessage; only SlackApiError is caught.
_send_text_message(text) ==
    Result(text = "ok", <<"text">>, text = "error")

\* Fault injection for C21: an upload failure that is not followed by the
\* text-only message.
_send_message_with_image_no_fallback(image, text) ==
    Result(image = "ok", <<"image">>, FALSE)

\* _send_message_with_image: files_upload_v2; on SlackApiError and on any
\* other exception the text-only message is sent instead.
_send_message_with_image(image, text) ==
    IF image = "ok"
    THEN Result(TRUE, <<"image">>, FALSE)
    ELSE LET r == _send_text_message(text)
         IN  Result(r.ret, <<"image">> \o r.attempts, r.raised)

\* send_parking_alert(session_data, image_path).  client: self.client is
\* set; exists: image_path is given and the file exists; prep: how the
\* preparation of the message ends; image, text: how the two API calls
\* would end.  The outer except Exception turns every exception into False.
send_parking_alert(client, exists, prep, image, text) ==
    IF ~client THEN Result(FALSE, <<>>, FALSE)
    ELSE IF prep # "ok" THEN Result(FALSE, <<>>, FALSE)
    ELSE LET r == IF exists THEN _send_message_with_image(image, text)
                            ELSE _send_text_message(text)
         IN  IF r.raised THEN Result(FALSE, r.attempts, FALSE) ELSE r

NotifierInputs ==
    [client : BOOLEAN, exists : BOOLEAN, prep : {"ok", "error"},
     image : Outcomes, text : Outcomes]

InitNotifier ==
    /\ InitAlone
    /\ fn \in {[pc |-> "called", in |-> i, out |-> Result(FALSE, <<>>, FALSE)] :
                 i \in NotifierInputs}

\* send_parking_alert returns.
CallSendParkingAlert ==
    /\ fn.pc = "called"
    /\ fn' = [fn EXCEPT !.pc = "returned",
                        !.out = send_parking_alert(fn.in.client, fn.in.exists,
                                    fn.in.prep, fn.in.image, fn.in.text)]
    /\ UNCHANGED <<tz, sessions, alerts, active_sessions, camera, is_running,
                   monitor_thread, slack, hw, now, pc, loc, ctl, rd, det, last>>

\* ------------------------------------------------------------ retention
\* The image directory as os.listdir returns it: the modification time of
\* each entry, in listing order.
Directories == UNION {[1..n -> 1..MaxMtime] : n \in 0..MaxFiles}

\* files_with_time.sort(key=lambda x: x[1]): the entries that come before
\* entry i in the sorted list.
SortedBefore(files, i) ==
    {j \in 1..Len(files) : files[j] < files[i] \/ (files[j] = files[i] /\ j < i)}

\* Fault injection for C32: an os.remove whose OSError ends the run.
cleanup_old_images_until_error(files, m, fails) ==
    IF Len(files) <= m THEN {}
    ELSE {i \in 1..Len(files) :
            /\ Cardinality(SortedBefore(files, i)) < Len(files) - m
            /\ i \notin fails
            /\ SortedBefore(files, i) \cap fails = {}}

\* Fault injection for C25: the newest files are removed.
cleanup_old_images_newest(files, m, fails) ==
    {i \in 1..Len(files) :
        Cardinality({j \in 1..Len(files) :
                        files[j] > files[i] \/ (files[j] = files[i] /\ j > i)})
            < Len(files) - m} \ fails

\* cleanup_old_images with MAX_STORED_IMAGES = m: the entries removed.  With
\* more than m entries they are sorted by modification time (list.sort is
\* stable: equal times keep the listing order) and the first len - m are
\* given to os.remove; an OSError (fails) is passed over.
cleanup_old_images(files, m, fails) ==
    IF Len(files) <= m THEN {}
    ELSE {i \in 1..Len(files) :
            Cardinality({j \in 1..Len(files) :
                            files[j] < files[i] \/ (files[j] = files[i] /\ j < i)})
                < Len(files) - m} \ fails

CleanupInputs ==
    UNION {[files : {d}, m : 0..MaxFiles, fails : SUBSET (1..Len(d))] :
              d \in Directories}

InitCleanup ==
    /\ InitAlone
    /\ fn \in {[pc |-> "called", in |-> i, out |-> {}] : i \in CleanupInputs}

\* cleanup_old_images returns.
CallCleanupOldImages ==
    /\ fn.pc = "called"
    /\ fn' = [fn EXCEPT !.pc = "returned",
                        !.out = cleanup_old_images(fn.in.files, fn.in.m, fn.in.fails)]
    /\ UNCHANGED <<tz, sessions, alerts, active_sessions, camera, is_running,
                   monitor_thread, slack, hw, now, pc, loc, ctl, rd, det, last>>

\* The entries of a directory that are not in removed, in listing order.
RECURSIVE Remaining(_, _, _)
Remaining(files, removed, i) ==
    IF i > Len(files) THEN <<>>
    ELSE (IF i \in removed THEN <<>> ELSE <<files[i]>>)
             \o Remaining(files, removed, i + 1)

\* The monitor loop seen second by second.  sec: int(current_time) of the
\* iteration that is about to start, within the hour; files: the image
\* directory; skipped: the iteration before started before a full hour and
\* ended after it.
InitRetention ==
    /\ InitAlone
    /\ fn \in {[pc |-> "loop", sec |-> c, files |-> <<>>, skipped |-> FALSE] :
                 c \in 0..(HourSeconds - 1)}

\* One iteration of _monitor_loop: current_time = time.time(); the detection
\* tick may save an evidence image; cleanup_old_images runs if
\* int(current_time) % 3600 == 0 (here every removal succeeds); the
\* iteration, with its time.sleep(1), takes d seconds.  The clock counts the
\* hours up to MaxTime.
LoopIteration ==
    /\ fn.pc = "loop"
    /\ \E d \in 1..MaxIteration, saves \in BOOLEAN :
         LET saved == IF saves /\ Len(fn.files) < MaxFiles
                      THEN Append(fn.files, now) ELSE fn.files
             kept == IF fn.sec % HourSeconds = 0
                     THEN Remaining(saved,
                              cleanup_old_images(saved, MAX_STORED_IMAGES, {}), 1)
                     ELSE saved
             hour == fn.sec + d >= HourSeconds
         IN  /\ fn' = [fn EXCEPT !.sec = (fn.sec + d) % HourSeconds,
                                 !.files = kept,
                                 !.skipped = fn.sec + d > HourSeconds]
             /\ now' = IF hour /\ now < MaxTime THEN now + 1 ELSE now
    /\ UNCHANGED <<tz, sessions, alerts, active_sessions, camera, is_running,
                   monitor_thread, slack, hw, pc, loc, ctl, rd, det, last>>

\* ------------------------------------------------ detection in one spot
\* A box as the detection model returns it, in the coordinates of the image
\* it was given.
Coords == 0..MaxCoord
ModelBoxes == {b \in [x1 : Coords, y1 : Coords, x2 : Coords, y2 : Coords] :
                  b.x1 <= b.x2 /\ b.y1 <= b.y2}

\* The width and the height of the region of a spot.
RoiSide == MaxCoord + 1

\* Config.PATROL_REGION: None, or a quadrilateral whose bounding rectangle
\* starts at (x, y).
Patrols == {[set |-> FALSE, x |-> 0, y |-> 0]}
               \cup {[set |-> TRUE, x |-> px, y |-> py] :
                         px \in 0..RoiSide, py \in 0..RoiSide}

\* The corners of a spot's region, of which only the origin matters here.
SpotOrigins == [x : Coords, y : Coords]

Shift(b, dx, dy) ==
    [x1 |-> b.x1 + dx, y1 |-> b.y1 + dy, x2 |-> b.x2 + dx, y2 |-> b.y2 + dy]

\* detect_cars_in_frame, region_offset: (0, 0) without a patrol region and
\* when _crop_to_quadrilateral finds no part of the region inside the image
\* (the model then sees a 1x1 black image); else the origin of the region's
\* bounding rectangle, to which the image is cropped.
region_offset(patrol, side) ==
    IF patrol.set /\ side - patrol.x > 0 /\ side - patrol.y > 0
    THEN [x |-> patrol.x, y |-> patrol.y]
    ELSE [x |-> 0, y |-> 0]

\* detect_cars_in_frame(image): the model's boxes moved by region_offset,
\* which makes them boxes in the coordinates of image.
detect_cars_in_frame(raw, patrol, side) ==
    LET off == region_offset(patrol, side)
    IN  [k \in 1..Len(raw) |-> Shift(raw[k], off.x, off.y)]

\* Fault injection for C31: the boxes are returned as the detector gave
\* them.
detect_cars_in_spot_local(raw, patrol, spot) ==
    detect_cars_in_frame(raw, patrol, RoiSide)

\* detect_cars_in_spot: detect_cars_in_frame on frame[y:y+h, x:x+w], then
\* every bbox moved by (x, y).
detect_cars_in_spot(raw, patrol, spot) ==
    LET detections == detect_cars_in_frame(raw, patrol, RoiSide)
    IN  [k \in 1..Len(detections) |-> Shift(detections[k], spot.x, spot.y)]

\* One call of detect_cars_in_spot for a spot, a patrol region and the boxes
\* the model returns (none or one).  local: the boxes detect_cars_in_frame
\* returned, which are in the coordinates of the spot's region.
InitSpot ==
    /\ InitAlone
    /\ fn \in {[pc |-> "spot", spot |-> o, patrol |-> p, raw |-> r,
                 done |-> FALSE, local |-> <<>>, out |-> <<>>] :
                 o \in SpotOrigins, p \in Patrols,
                 r \in {<<>>} \cup {<<b>> : b \in ModelBoxes}}

CallDetectCarsInSpot ==
    /\ fn.pc = "spot"
    /\ ~fn.done
    /\ fn' = [fn EXCEPT !.done = TRUE,
                        !.local = detect_cars_in_frame(fn.raw, fn.patrol, RoiSide),
                        !.out = detect_cars_in_spot(fn.raw, fn.patrol, fn.spot)]
    /\ UNCHANGED <<tz, sessions, alerts, active_sessions, camera, is_running,
                   monitor_thread, slack, hw, now, pc, loc, ctl, rd, det, last>>

\* ------------------------------------------------- the vehicle fingerprint
\* A frame is one row of grey pixels; a detection box is the columns
\* x1 <= x2 that int() made of the model's box, so a box narrower than a
\* pixel has x1 = x2.
Pixels == 0..MaxPixel
Frames == [1..MaxWidth -> Pixels]
BBoxes == {b \in [x1 : 0..MaxWidth, x2 : 0..MaxWidth] : b.x1 <= b.x2}
Uuids == 1..MaxUuids

\* frame[bbox[1]:bbox[3], bbox[0]:bbox[2]].
car_roi(frame, bbox) == SubSeq(frame, bbox.x1 + 1, bbox.x2)

\* cv2.resize to a fixed size, here two pixels (nearest neighbour), of which
\* the regions are the left and the right one.
car_roi_resized(roi) == <<roi[1], roi[1 + (Len(roi) \div 2)]>>

\* generate_car_identifier: an empty region gives f"car_{uuid.uuid4().hex[:8]}"
\* (uuid: what uuid4 returned); else the region averages weighted by their
\* position are summed, f"car_{hash_value % 1000000:06d}".
generate_car_identifier(frame, bbox, uuid) ==
    LET roi == car_roi(frame, bbox)
    IN  IF Len(roi) = 0
        THEN [kind |-> "uuid", v |-> uuid]
        ELSE LET regions == car_roi_resized(roi)
             IN  [kind |-> "hash", v |-> (regions[1] * 1 + regions[2] * 2) % 1000000]

\* Two computations of the identifier over one frame and one detection box.
InitFingerprint ==
    /\ InitAlone
    /\ fn \in {[pc |-> "ident", frame |-> f, bbox |-> b, ids |-> <<>>] :
                 f \in Frames, b \in BBoxes}

CallGenerateCarIdentifier ==
    /\ fn.pc = "ident"
    /\ Len(fn.ids) < 2
    /\ \E uuid \in Uuids :
         fn' = [fn EXCEPT !.ids =
                    Append(fn.ids, generate_car_identifier(fn.frame, fn.bbox, uuid))]
    /\ UNCHANGED <<tz, sessions, alerts, active_sessions, camera, is_running,
                   monitor_thread, slack, hw, now, pc, loc, ctl, rd, det, last>>

\* ------------------------------------------------- the latest-frame buffer
\* The generators of /video_feed, one per client.
Readers == 1..MaxReaders

\* frame_lock: nobody holds it, a generator holds it, or the main loop's
\* thread does.
LockFree == 0
Writer == MaxReaders + 1

\* camera_frame = None; also what the fallback image shows.
NoFrame == 0

\* The module globals of the web interface and the threads using them.
\* heap: the pixels of the array the main loop passes (arg) and of the array
\* camera_frame.copy() made (buf); camera_frame: the array the global refers
\* to; n: the frames the main loop has produced; latest: the pixels of the
\* last write that completed; w: the main loop inside update_camera_frame
\* (none: the argument is None); rds: the generators (got: the pixels last
\* sent to the client).
InitMailbox ==
    /\ InitAlone
    /\ fn = [pc |-> "mailbox", lock |-> LockFree, camera_frame |-> "none",
             heap |-> [arg |-> NoFrame, buf |-> NoFrame],
             n |-> 0, latest |-> NoFrame,
             w |-> [pc |-> "idle", none |-> FALSE],
             rds |-> [r \in Readers |-> [pc |-> "idle", got |-> NoFrame]]]

\* Fault injection for C29: camera_frame = frame, without the copy.
update_camera_frame_by_reference(f) ==
    [f EXCEPT !.camera_frame = "arg"]

\* camera_frame = frame.copy(): a new array with the pixels of the argument.
update_camera_frame(f) ==
    [f EXCEPT !.heap.buf = f.heap.arg, !.camera_frame = "buf"]

\* The pixels of the array camera_frame refers to.
Shown == IF fn.camera_frame = "none" THEN NoFrame ELSE fn.heap[fn.camera_frame]

\* main_loop calls update_camera_frame: with the next annotated frame, which
\* it has drawn into its own array, or with None when there is no camera.
UpdateCameraFrameCall ==
    /\ fn.pc = "mailbox"
    /\ fn.w.pc = "idle"
    /\ \E none \in BOOLEAN :
         /\ ~none => fn.n < MaxFrames
         /\ fn' = IF none
                  THEN [fn EXCEPT !.w = [pc |-> "waiting", none |-> TRUE]]
                  ELSE [fn EXCEPT !.w = [pc |-> "waiting", none |-> FALSE],
                                  !.n = fn.n + 1,
                                  !.heap.arg = fn.n + 1]
    /\ last' = NoEvent
    /\ UNCHANGED <<tz, sessions, alerts, active_sessions, camera, is_running,
                   monitor_thread, slack, hw, now, pc, loc, ctl, rd, det>>

\* update_camera_frame: with frame_lock is entered.
UpdateCameraFrameAcquire ==
    /\ fn.pc = "mailbox"
    /\ fn.w.pc = "waiting"
    /\ fn.lock = LockFree
    /\ fn' = [fn EXCEPT !.lock = Writer, !.w.pc = "locked"]
    /\ last' = NoEvent
    /\ UNCHANGED <<tz, sessions, alerts, active_sessions, camera, is_running,
                   monitor_thread, slack, hw, now, pc, loc, ctl, rd, det>>

\* update_camera_frame: camera_frame = frame.copy() and the lock is
\* released.  None.copy() raises AttributeError: the with block releases the
\* lock and the global keeps the frame it had.
\* main_loop catches the exception, logs it and sleeps five seconds.
UpdateCameraFrameStore ==
    /\ fn.pc = "mailbox"
    /\ fn.w.pc = "locked"
    /\ fn' = IF fn.w.none
             THEN [fn EXCEPT !.lock = LockFree, !.w.pc = "idle"]
             ELSE [update_camera_frame(fn) EXCEPT !.latest = fn.heap.arg,
                                                  !.lock = LockFree,
                                                  !.w.pc = "idle"]
    /\ last' = IF fn.w.none THEN Event("update_raised", 0) ELSE NoEvent
    /\ UNCHANGED <<tz, sessions, alerts, active_sessions, camera, is_running,
                   monitor_thread, slack, hw, now, pc, loc, ctl, rd, det>>

\* generate_frames: with frame_lock is entered.
GenerateFramesAcquire(r) ==
    /\ fn.pc = "mailbox"
    /\ fn.rds[r].pc = "idle"
    /\ fn.lock = LockFree
    /\ fn' = [fn EXCEPT !.lock = r, !.rds[r].pc = "locked"]
    /\ last' = NoEvent
    /\ UNCHANGED <<tz, sessions, alerts, active_sessions, camera, is_running,
                   monitor_thread, slack, hw, now, pc, loc, ctl, rd, det>>

\* generate_frames: camera_frame (or the fallback image when it is None) is
\* encoded and yielded.  The yield is inside the with block, so the
\* generator keeps the lock while it is suspended.
GenerateFramesYield(r) ==
    /\ fn.pc = "mailbox"
    /\ fn.rds[r].pc = "locked"
    /\ fn' = [fn EXCEPT !.rds[r] = [pc |-> "yielded", got |-> Shown]]
    /\ last' = NoEvent
    /\ UNCHANGED <<tz, sessions, alerts, active_sessions, camera, is_running,
                   monitor_thread, slack, hw, now, pc, loc, ctl, rd, det>>

\* generate_frames is resumed (or closed, when its client has gone): the with
\* block is left and the generator sleeps.
GenerateFramesResume(r) ==
    /\ fn.pc = "mailbox"
    /\ fn.rds[r].pc = "yielded"
    /\ fn' = [fn EXCEPT !.lock = LockFree, !.rds[r].pc = "idle"]
    /\ last' = NoEvent
    /\ UNCHANGED <<tz, sessions, alerts, active_sessions, camera, is_running,
                   monitor_thread, slack, hw, now, pc, loc, ctl, rd, det>>

\* ------------------------------------------------------------- read_frame
\* The caller found self.camera set and calls read_frame: the first
\* capture_array is in progress.  The monitor loop took current_time just
\* before, the time a completed tick stores in last_detection_time: the
\* interval runs from here.
EnterReadFrame(t) ==
    /\ pc' = [pc EXCEPT ![t] = "read"]
    /\ loc' = [loc EXCEPT ![t].due = FALSE, ![t].path = "none"]

\* Fault injection for C6: a caller that goes on to the spot checks
\* whatever read_frame returned.
ReadFrameReturns_unchecked(t, ok, why) ==
    /\ pc' = [pc EXCEPT ![t] = "detect"]
    /\ loc' = [loc EXCEPT ![t].i = IF t = Main THEN 0 ELSE 1, ![t].path = "none"]
    /\ last' = Event(why, 0)

\* The caller's continuation once read_frame has returned (ok, frame).
\* _check_all_spots: on ok the first spot's is_spot_occupied starts, else the
\* tick returns and the loop records last_detection_time.  main_loop: on ok
\* detect_cars_in_frame starts, else the iteration ends.
ReadFrameReturns(t, ok, why) ==
    IF ok
    THEN /\ pc' = [pc EXCEPT ![t] = "detect"]
         /\ loc' = [loc EXCEPT ![t].i = IF t = Main THEN 0 ELSE 1,
                               ![t].path = "none"]
         /\ last' = Event(why, 0)
    ELSE /\ pc' = [pc EXCEPT ![t] = IF t = Main THEN "top" ELSE "alerts"]
         /\ loc' = [loc EXCEPT ![t] = Idle(loc[t])]
         /\ last' = Event(why, 0)

\* read_frame, first capture: a frame returns (True, frame); an empty frame
\* takes the else branch and an exception the except branch, both of which
\* stop_camera() and then start_camera().
ReadFirst(t) ==
    /\ pc[t] = "read"
    /\ \E o \in CaptureOutcomes :
         IF o = "frame"
         THEN /\ ReadFrameReturns(t, TRUE, "read_ok")
              /\ UNCHANGED camera
         ELSE /\ camera' = FALSE
              /\ pc' = [pc EXCEPT ![t] = "reopen"]
              /\ loc' = [loc EXCEPT ![t].path =
                              IF o = "empty" THEN "else" ELSE "except"]
              /\ last' = NoEvent
    /\ UNCHANGED <<fn, tz, rd, det, sessions, alerts, active_sessions, is_running,
                   monitor_thread, slack, hw, now, ctl>>

\* Fault injection for C7: a failed start_camera() that keeps the handle.
Reopen_keeps_handle(t) ==
    /\ pc[t] = "reopen"
    /\ camera' = TRUE
    /\ IF StartCameraResult
       THEN /\ pc' = [pc EXCEPT ![t] = "reread"]
            /\ last' = NoEvent
            /\ UNCHANGED loc
       ELSE /\ pc' = [pc EXCEPT ![t] = "alerts"]
            /\ loc' = [loc EXCEPT ![t] = Idle(loc[t])]
            /\ last' = Event("reopen_failed", 0)
    /\ UNCHANGED <<fn, tz, rd, det, sessions, alerts, active_sessions, is_running,
                   monitor_thread, slack, hw, now, ctl>>

\* read_frame, start_camera() returns: True goes on to the second capture,
\* False leaves the handle cleared and returns (False, None).
Reopen(t) ==
    /\ pc[t] = "reopen"
    /\ camera' = StartCameraResult
    /\ IF StartCameraResult
       THEN /\ pc' = [pc EXCEPT ![t] = "reread"]
            /\ last' = NoEvent
            /\ UNCHANGED loc
       ELSE ReadFrameReturns(t, FALSE, "reopen_failed")
    /\ UNCHANGED <<fn, tz, rd, det, sessions, alerts, active_sessions, is_running,
                   monitor_thread, slack, hw, now, ctl>>

\* read_frame, the capture after re-opening.  In the else branch an
\* exception is caught by the except branch, which stops and starts the
\* camera once more; in the except branch it is passed over.
Reread(t) ==
    /\ pc[t] = "reread"
    /\ \E o \in CaptureOutcomes :
         IF o = "frame"
         THEN /\ ReadFrameReturns(t, TRUE, "read_ok")
              /\ UNCHANGED camera
         ELSE IF o = "raise" /\ loc[t].path = "else"
         THEN /\ camera' = FALSE
              /\ pc' = [pc EXCEPT ![t] = "reopen"]
              /\ loc' = [loc EXCEPT ![t].path = "except"]
              /\ last' = Event("reopen_again", 0)
         ELSE /\ ReadFrameReturns(t, FALSE, "reread_failed")
              /\ UNCHANGED camera
    /\ UNCHANGED <<fn, tz, rd, det, sessions, alerts, active_sessions, is_running,
                   monitor_thread, slack, hw, now, ctl>>

\* ------------------------------------------------------- the monitor loop
\* The loop goes on to the alert scan (a completed _check_all_spots has set
\* last_detection_time = current_time).
ToAlerts(t) ==
    /\ pc' = [pc EXCEPT ![t] = "alerts"]
    /\ loc' = [loc EXCEPT ![t] = Idle(loc[t])]

\* Fault injection for C39: an exception after which last_detection_time
\* has been advanced.
ToBackoff_advances(t) ==
    /\ pc' = [pc EXCEPT ![t] = "backoff"]
    /\ loc' = [loc EXCEPT ![t] = [NoLoc EXCEPT !.due = FALSE]]

\* Fault injection for C12: an exception that leaves the loop thread.
ToBackoff_uncaught(t) ==
    /\ pc' = [pc EXCEPT ![t] = "off"]
    /\ loc' = [loc EXCEPT ![t] = NoLoc]

\* except Exception: log, time.sleep(5).  last_detection_time keeps its old
\* value, so the next iteration is due again.
ToBackoff(t) ==
    /\ pc' = [pc EXCEPT ![t] = "backoff"]
    /\ loc' = [loc EXCEPT ![t] = [NoLoc EXCEPT !.due = TRUE]]

\* for spot in Config.PARKING_SPOTS: the next spot's is_spot_occupied starts,
\* or _check_all_spots returns.
NextSpot(t) ==
    IF loc[t].i < NumSpots
    THEN /\ pc' = [pc EXCEPT ![t] = "detect"]
         /\ loc' = [loc EXCEPT ![t].i = loc[t].i + 1, ![t].conf = 0,
                               ![t].img = NoImage]
    ELSE ToAlerts(t)

\* Fault injection for C28: a loop head that does not look at is_running.
LoopTop_ignores_flag(t) ==
    /\ t \in Loops
    /\ pc[t] = "top"
    /\ IF loc[t].due
       THEN IF ~camera
            THEN /\ pc' = [pc EXCEPT ![t] = "alerts"]
                 /\ loc' = [loc EXCEPT ![t] = [NoLoc EXCEPT !.due = FALSE]]
                 /\ last' = Event("skip_nocam", 0)
            ELSE /\ EnterReadFrame(t)
                 /\ last' = NoEvent
       ELSE /\ ToAlerts(t)
            /\ last' = NoEvent
    /\ UNCHANGED <<fn, tz, rd, det, sessions, alerts, active_sessions, camera, is_running,
                   monitor_thread, slack, hw, now, ctl>>

\* _monitor_loop, the head of an iteration: leave when is_running is false;
\* when a detection is due enter _check_all_spots, which returns at once
\* without a camera handle and otherwise calls read_frame.
LoopTop(t) ==
    /\ t \in Loops
    /\ pc[t] = "top"
    /\ IF ~is_running
       THEN /\ pc' = [pc EXCEPT ![t] = "off"]
            /\ loc' = [loc EXCEPT ![t] = NoLoc]
            /\ last' = Event("exit", 0)
       ELSE IF loc[t].due
       THEN IF ~camera
            THEN /\ pc' = [pc EXCEPT ![t] = "alerts"]
                 /\ loc' = [loc EXCEPT ![t] = [NoLoc EXCEPT !.due = FALSE]]
                 /\ last' = Event("skip_nocam", 0)
               ELSE /\ EnterReadFrame(t)
                 /\ last' = NoEvent
       ELSE /\ ToAlerts(t)
            /\ last' = NoEvent
    /\ UNCHANGED <<fn, tz, rd, det, sessions, alerts, active_sessions, camera, is_running,
                   monitor_thread, slack, hw, now, ctl>>

\* _end_session(spot_id): end the session the map holds and delete the key.
\* (end_parking_session returning False only skips the log line.)
_end_session(spot) ==
    /\ sessions' = end_parking_session(sessions, active_sessions[spot], now)
    /\ active_sessions' = [active_sessions EXCEPT ![spot] = 0]

\* Fault injection for C14: an insert that stays in the store although the
\* call raised.
start_parking_session_committed(ss, spot, conf, img, t) ==
    IF Len(ss) < MaxSessions THEN Append(ss, NewSession(spot, conf, img, t)) ELSE ss

\* start_parking_session raising (or detect_cars_in_spot raising before it):
\* leaving the with sqlite3.connect(...) block by an exception rolls the
\* insert back, so the store is as before.
start_parking_session_raises(ss, spot, conf, img, t) == ss

\* _handle_car_detected / _handle_car_left: spot_id in self.active_sessions.
in_active_sessions(spot) == active_sessions[spot] # 0

\* One spot of _check_all_spots: is_spot_occupied returns (saving the
\* evidence image when the confidence is above the threshold), then
\* _handle_car_detected or _handle_car_left runs.  A new car leads to
\* detect_cars_in_spot (for the identifier) before the session is stored.
CheckSpot(t) ==
    /\ t \in Loops
    /\ pc[t] = "detect"
    /\ \E r \in DetectorResults, raises \in BOOLEAN :
         LET spot == loc[t].i
             img == IF r.save THEN save_spot_image(t, spot) ELSE NoImage
         IN  IF raises
             THEN /\ ToBackoff(t)
                  /\ last' = Event("detector_raised", spot)
                  /\ UNCHANGED <<sessions, active_sessions>>
             ELSE /\ IF r.occ /\ in_active_sessions(spot)
                     THEN /\ NextSpot(t)
                          /\ last' = EventSaving("still", spot, img)
                          /\ UNCHANGED <<sessions, active_sessions>>
                     ELSE IF r.occ
                     THEN /\ pc' = [pc EXCEPT ![t] = "ident"]
                          /\ loc' = [loc EXCEPT ![t].conf = r.conf, ![t].img = img]
                          /\ last' = EventSaving("new_car", spot, img)
                          /\ UNCHANGED <<sessions, active_sessions>>
                     ELSE IF in_active_sessions(spot)
                     THEN /\ _end_session(spot)
                          /\ NextSpot(t)
                          /\ last' = Event("ended", spot)
                     ELSE /\ NextSpot(t)
                          /\ last' = NoEvent
                          /\ UNCHANGED <<sessions, active_sessions>>
    /\ UNCHANGED <<fn, tz, rd, det, alerts, camera, is_running, monitor_thread, slack, hw, now,
                   ctl>>

\* _handle_car_detected, after the check of the map: detect_cars_in_spot
\* returns, start_parking_session inserts the row and the map gets the
\* session under the spot.  Either call may raise: the insert is rolled back
\* by the connection's context manager, the exception leaves
\* _check_all_spots and the loop's except clause sleeps.
StartSession(t) ==
    /\ t \in Loops
    /\ pc[t] = "ident"
    /\ \E raises \in BOOLEAN :
         LET spot == loc[t].i
         IN  IF raises \/ Len(sessions) >= MaxSessions
             THEN /\ ToBackoff(t)
                  /\ last' = Event("start_failed", spot)
                  /\ sessions' = start_parking_session_raises(sessions, spot,
                                     loc[t].conf, loc[t].img, now)
                  /\ UNCHANGED active_sessions
             ELSE /\ sessions' = start_parking_session(sessions, spot,
                                     loc[t].conf, loc[t].img, now)
                  /\ active_sessions' =
                         [active_sessions EXCEPT ![spot] = Len(sessions')]
                  /\ NextSpot(t)
                  /\ last' = Event("created", spot)
    /\ UNCHANGED <<fn, tz, rd, det, alerts, camera, is_running, monitor_thread, slack, hw, now,
                   ctl>>

\* _has_alert_been_sent: "For now, we'll assume no alerts have been sent".
_has_alert_been_sent(as, id) == FALSE

\* The alert rows create_alert + mark_alert_sent add for the sessions, in the
\* order given.
AlertRows(ids) ==
    [k \in 1..Len(ids) |-> [session_id |-> ids[k], sent_to_slack |-> TRUE]]

\* Fault injection for C22: alerts recorded and marked whatever
\* send_parking_alert returned.
_send_long_parking_alert_unchecked(ids, ok) == AlertRows(ids)

\* _send_long_parking_alert for the sessions ids in turn: only a session for
\* which send_parking_alert returned True (ok) gets create_alert and
\* mark_alert_sent.
_send_long_parking_alert(ids, ok) ==
    AlertRows(SelectSeq(ids, LAMBDA id : id \in ok))

\* What a scan that raises leaves of the rows of a scan that does not: all
\* of them (the exception came later), all with the last one not marked
\* (mark_alert_sent raised), or all but the last (create_alert raised).
PartialRows(rows) ==
    IF rows = <<>> THEN {rows}
    ELSE {rows,
          [rows EXCEPT ![Len(rows)].sent_to_slack = FALSE],
          SubSeq(rows, 1, Len(rows) - 1)}

\* The rest of an iteration after the detection tick:
\* _check_long_parking_alerts, the hourly cleanup_old_images, time.sleep(1).
\* Each overstaying session not reported as alerted is sent to Slack; a
\* successful send_parking_alert records an alert and marks it sent.
\* Without a Slack client nothing is sent.  The store queries and the
\* directory listing of the cleanup can raise: the alerts written so far
\* stay, and the loop's except clause sleeps (last_detection_time is already
\* set, so the timer is left alone).
CheckAlerts(t) ==
    /\ t \in Loops
    /\ pc[t] = "alerts"
    /\ LET due == {id \in get_long_parking_sessions(sessions, now) :
                      ~_has_alert_been_sent(alerts, id)}
       IN  \E ok \in SUBSET due, raises \in BOOLEAN :
             /\ ~slack => ok = {}
             /\ Len(alerts) + Cardinality(ok) <= MaxAlerts
             /\ \E ids \in OrderedBy(sessions, due) :
                  LET rows == _send_long_parking_alert(ids, ok)
                  IN  IF raises
                      THEN \E part \in PartialRows(rows) :
                               alerts' = alerts \o part
                      ELSE alerts' = alerts \o rows
             /\ IF raises
                THEN /\ pc' = [pc EXCEPT ![t] = "backoff"]
                     /\ last' = EventScan("scan_raised", ok)
                ELSE /\ pc' = [pc EXCEPT ![t] = "top"]
                     /\ last' = IF ok = {} THEN NoEvent
                                 ELSE EventScan("scanned", ok)
    /\ UNCHANGED <<fn, tz, rd, det, sessions, active_sessions, camera, is_running,
                   monitor_thread, slack, hw, now, loc, ctl>>

\* The sleep after a caught exception is over (either loop).
Backoff(t) ==
    /\ pc[t] = "backoff"
    /\ pc' = [pc EXCEPT ![t] = "top"]
    /\ last' = NoEvent
    /\ UNCHANGED <<fn, tz, rd, det, sessions, alerts, active_sessions, camera, is_running,
                   monitor_thread, slack, hw, now, loc, ctl>>

\* ---------------------------------------------------------- the main loop
\* main_loop, a frame update: with a camera handle read_frame is called;
\* without one update_camera_frame(None) raises on None.copy(), which the
\* loop catches and sleeps on.
MainTop ==
    /\ pc[Main] = "top"
    /\ IF camera
       THEN /\ EnterReadFrame(Main)
            /\ last' = NoEvent
       ELSE /\ pc' = [pc EXCEPT ![Main] = "backoff"]
            /\ last' = NoEvent
            /\ UNCHANGED loc
    /\ UNCHANGED <<fn, tz, rd, det, sessions, alerts, active_sessions, camera, is_running,
                   monitor_thread, slack, hw, now, ctl>>

\* main_loop: detect_cars_in_frame returns and the annotated frame is
\* published, or it raises and the loop sleeps.
MainDetect ==
    /\ pc[Main] = "detect"
    /\ \E raises \in BOOLEAN :
         /\ pc' = [pc EXCEPT ![Main] = IF raises THEN "backoff" ELSE "top"]
         /\ last' = NoEvent
    /\ loc' = [loc EXCEPT ![Main] = NoLoc]
    /\ UNCHANGED <<fn, tz, rd, det, sessions, alerts, active_sessions, camera, is_running,
                   monitor_thread, slack, hw, now, ctl>>

\* ------------------------------------------- start_monitoring, stop_monitoring
\* start_monitoring: is_running is false, so start_camera() is called (it
\* first releases any handle).  When is_running is true the call returns at
\* once and changes nothing.
StartMonitoring ==
    /\ ctl.pc = "idle"
    /\ ~is_running
    /\ camera' = FALSE
    /\ ctl' = [ctl EXCEPT !.pc = "starting"]
    /\ last' = NoEvent
    /\ UNCHANGED <<fn, tz, rd, det, sessions, alerts, active_sessions, is_running,
                   monitor_thread, slack, hw, now, pc, loc>>

\* A thread slot no loop runs in.
FreeLoop == CHOOSE t \in Loops : pc[t] = "off" /\ \A u \in Loops : pc[u] = "off" => t <= u

\* start_monitoring, after start_camera() (whose failure is only logged):
\* is_running = True and a new thread runs _monitor_loop.
StartMonitoringThread ==
    /\ ctl.pc = "starting"
    /\ \E t \in Loops : pc[t] = "off"
    /\ camera' = StartCameraResult
    /\ is_running' = TRUE
    /\ monitor_thread' = FreeLoop
    /\ pc' = [pc EXCEPT ![FreeLoop] = "top"]
    /\ loc' = [loc EXCEPT ![FreeLoop] = NoLoc]
    /\ ctl' = [ctl EXCEPT !.pc = "idle"]
    /\ last' = NoEvent
    /\ UNCHANGED <<fn, tz, rd, det, sessions, alerts, active_sessions, slack, hw, now>>

\* stop_monitoring: is_running = False, then monitor_thread.join(timeout=5).
StopMonitoring ==
    /\ ctl.pc = "idle"
    /\ is_running' = FALSE
    /\ ctl' = [ctl EXCEPT !.pc = "joining", !.atStop = ActiveIds(sessions)]
    /\ last' = NoEvent
    /\ UNCHANGED <<fn, tz, rd, det, sessions, alerts, active_sessions, camera, monitor_thread,
                   slack, hw, now, pc, loc>>

\* The join is over: the thread has left its loop, or five seconds passed
\* with the thread inside a blocking call.
JoinReturns ==
    \/ monitor_thread = 0
    \/ pc[monitor_thread] = "off"
    \/ pc[monitor_thread] \in Blocking

\* stop_monitoring after the join: stop_camera(), then
\* list(self.active_sessions.keys()) is taken to end every session in it.
StopAfterJoin ==
    /\ ctl.pc = "joining"
    /\ JoinReturns
    /\ camera' = FALSE
    /\ LET keys == {s \in Spots : active_sessions[s] # 0}
       IN  IF keys = {}
           THEN /\ ctl' = CtlIdle
                /\ last' = Event("stopped", 0)
           ELSE /\ ctl' = [ctl EXCEPT !.pc = "ending", !.keys = keys]
                /\ last' = NoEvent
    /\ UNCHANGED <<fn, tz, rd, det, sessions, alerts, active_sessions, is_running,
                   monitor_thread, slack, hw, now, pc, loc>>

\* stop_monitoring, one _end_session(spot_id) of its loop.  A key the monitor
\* loop has deleted meanwhile raises KeyError out of stop_monitoring.
StopEndSession ==
    /\ ctl.pc = "ending"
    /\ \E spot \in ctl.keys :
         IF active_sessions[spot] = 0
         THEN /\ ctl' = CtlIdle
              /\ last' = Event("stop_raised", spot)
              /\ UNCHANGED <<sessions, active_sessions>>
         ELSE /\ _end_session(spot)
              /\ IF ctl.keys = {spot}
                 THEN /\ ctl' = CtlIdle
                      /\ last' = Event("stopped", spot)
                 ELSE /\ ctl' = [ctl EXCEPT !.keys = ctl.keys \ {spot}]
                      /\ last' = NoEvent
    /\ UNCHANGED <<fn, tz, rd, det, alerts, camera, is_running, monitor_thread, slack, hw, now,
                   pc, loc>>

\* -------------------------------------------------------- the web interface
\* The keys of the dict.
MapKeys == {s \in Spots : active_sessions[s] # 0}

\* GET /api/active-sessions: get_active_sessions_data creates the
\* self.active_sessions.items() iterator.  It takes no lock.
ReaderStart ==
    /\ rd.pc # "iter"
    /\ rd' = [NoRead EXCEPT !.pc = "iter", !.n = Cardinality(MapKeys)]
    /\ last' = NoEvent
    /\ UNCHANGED <<fn, tz, det, sessions, alerts, active_sessions, camera, is_running,
                   monitor_thread, slack, hw, now, pc, loc, ctl>>

\* One round of the for loop over items().  The dict iterator raises
\* RuntimeError when the dict's size differs from the size at its creation,
\* or when entries remain after it has delivered that many; else it delivers
\* an entry it has not delivered, or stops.  The body appends the entry's
\* session to the answer.
ReaderNext ==
    /\ rd.pc = "iter"
    /\ LET unseen == {s \in MapKeys : active_sessions[s] \notin rd.seen}
       IN  IF Cardinality(MapKeys) # rd.n
              \/ (Cardinality(rd.seen) = rd.n /\ unseen # {})
           THEN /\ rd' = [rd EXCEPT !.pc = "raised"]
                /\ last' = Event("read_raised", 0)
           ELSE IF unseen = {}
           THEN /\ rd' = [rd EXCEPT !.pc = "done"]
                /\ last' = Event("read_done", 0)
           ELSE \E s \in unseen :
                  /\ rd' = [rd EXCEPT !.seen = rd.seen \cup {active_sessions[s]},
                                      !.view[s] = active_sessions[s]]
                  /\ last' = NoEvent
    /\ UNCHANGED <<fn, tz, det, sessions, alerts, active_sessions, camera, is_running,
                   monitor_thread, slack, hw, now, pc, loc, ctl>>

\* ------------------------------------------------ evidence images on disk
\* The image directory with the names of its files.  dir: the files in
\* listing order, each with its name and modification time; n: the files
\* save_spot_image has written so far (file k is named k); ref: the
\* image_path of the active session (NoImage: no session is active).
InitEvidence ==
    /\ InitAlone
    /\ fn = [pc |-> "evidence", dir |-> <<>>, n |-> 0, ref |-> NoImage]

\* The modification times of the files, as cleanup_old_images reads them.
Mtimes(dir) == [i \in 1..Len(dir) |-> dir[i].mtime]

\* A tick finds a car in the empty spot with a confidence above the
\* threshold: is_spot_occupied saves the image and the session created
\* refers to it.
SaveSessionImage ==
    /\ fn.pc = "evidence"
    /\ fn.ref = NoImage
    /\ fn.n < MaxFiles
    /\ fn' = [fn EXCEPT !.n = fn.n + 1,
                        !.dir = Append(fn.dir, [name |-> fn.n + 1, mtime |-> now]),
                        !.ref = fn.n + 1]
    /\ last' = NoEvent
    /\ UNCHANGED <<tz, sessions, alerts, active_sessions, camera, is_running,
                   monitor_thread, slack, hw, now, pc, loc, ctl, rd, det>>

\* A later tick finds the car still there (or a car in another spot):
\* is_spot_occupied saves one more image, which no session refers to.
SaveTickImage ==
    /\ fn.pc = "evidence"
    /\ fn.n < MaxFiles
    /\ fn' = [fn EXCEPT !.n = fn.n + 1,
                        !.dir = Append(fn.dir, [name |-> fn.n + 1, mtime |-> now])]
    /\ last' = NoEvent
    /\ UNCHANGED <<tz, sessions, alerts, active_sessions, camera, is_running,
                   monitor_thread, slack, hw, now, pc, loc, ctl, rd, det>>

\* The hourly cleanup_old_images runs; some removals may fail.
RunCleanup ==
    /\ fn.pc = "evidence"
    /\ \E fails \in SUBSET (1..Len(fn.dir)) :
         fn' = [fn EXCEPT !.dir =
                    Remaining(fn.dir,
                              cleanup_old_images(Mtimes(fn.dir), MAX_STORED_IMAGES, fails),
                              1)]
    /\ last' = Event("cleaned", 0)
    /\ UNCHANGED <<tz, sessions, alerts, active_sessions, camera, is_running,
                   monitor_thread, slack, hw, now, pc, loc, ctl, rd, det>>

\* The car leaves and its session is ended.
SessionEnds ==
    /\ fn.pc = "evidence"
    /\ fn.ref # NoImage
    /\ fn' = [fn EXCEPT !.ref = NoImage]
    /\ last' = NoEvent
    /\ UNCHANGED <<tz, sessions, alerts, active_sessions, camera, is_running,
                   monitor_thread, slack, hw, now, pc, loc, ctl, rd, det>>

\* ------------------------------------------- _end_session, statement by statement
\* The threads that call _end_session: a monitor loop (_handle_car_left) and
\* the caller of stop_monitoring, whose join may have timed out.
Callers == {"loop", "stop"}

NoEnding == [pc |-> "idle", spot |-> 0, id |-> 0]

\* Every spot holds a session, known to the store and to the map, and both
\* callers are about to end sessions.
InitEnding ==
    /\ sessions = [s \in Spots |-> NewSession(s, CONFIDENCE_THRESHOLD, NoImage, 0)]
    /\ alerts = <<>>
    /\ active_sessions = [s \in Spots |-> s]
    /\ camera = FALSE
    /\ is_running = FALSE
    /\ monitor_thread = 0
    /\ slack = FALSE
    /\ hw = "ok"
    /\ now = 0
    /\ tz = 0
    /\ pc = [t \in Threads |-> "off"]
    /\ loc = [t \in Threads |-> NoLoc]
    /\ ctl = CtlIdle
    /\ rd = NoRead
    /\ det = NoCall
    /\ last = NoEvent
    /\ fn = [pc |-> "ending", c |-> [k \in Callers |-> NoEnding]]

\* _end_session(spot_id), first statements: the caller has found spot_id in
\* the map (spot_id in self.active_sessions, or a key of
\* list(self.active_sessions.keys())) and reads session_data['id'].
EndSessionRead(k) ==
    /\ fn.pc = "ending"
    /\ fn.c[k].pc = "idle"
    /\ \E spot \in MapKeys :
         fn' = [fn EXCEPT !.c[k] = [pc |-> "read", spot |-> spot,
                                    id |-> active_sessions[spot]]]
    /\ last' = NoEvent
    /\ UNCHANGED <<tz, sessions, alerts, active_sessions, camera, is_running,
                   monitor_thread, slack, hw, now, pc, loc, ctl, rd, det>>

\* _end_session: self.database.end_parking_session(session_id) returns.
EndSessionStore(k) ==
    /\ fn.pc = "ending"
    /\ fn.c[k].pc = "read"
    /\ sessions' = end_parking_session(sessions, fn.c[k].id, now)
    /\ fn' = [fn EXCEPT !.c[k].pc = "stored"]
    /\ last' = Event("ended", fn.c[k].spot)
    /\ UNCHANGED <<tz, alerts, active_sessions, camera, is_running,
                   monitor_thread, slack, hw, now, pc, loc, ctl, rd, det>>

\* _end_session: del self.active_sessions[spot_id], which raises KeyError
\* when the other caller has deleted the key.
EndSessionDelete(k) ==
    /\ fn.pc = "ending"
    /\ fn.c[k].pc = "stored"
    /\ active_sessions' = [active_sessions EXCEPT ![fn.c[k].spot] = 0]
    /\ fn' = [fn EXCEPT !.c[k] = NoEnding]
    /\ last' = IF active_sessions[fn.c[k].spot] = 0
               THEN Event("end_raised", fn.c[k].spot)
               ELSE NoEvent
    /\ UNCHANGED <<tz, sessions, alerts, camera, is_running,
                   monitor_thread, slack, hw, now, pc, loc, ctl, rd, det>>

\* -------------------------------------------------------- the environment
\* DETECTION_INTERVAL seconds have passed since the current_time of thread
\* t's last detection.
IntervalElapses(t) ==
    /\ t \in Loops
    /\ pc[t] # "off"
    /\ ~loc[t].due
    /\ loc' = [loc EXCEPT ![t].due = TRUE]
    /\ last' = NoEvent
    /\ UNCHANGED <<fn, tz, rd, det, sessions, alerts, active_sessions, camera, is_running,
                   monitor_thread, slack, hw, now, pc, ctl>>

\* An hour passes.
Tick ==
    /\ now < MaxTime
    /\ now' = now + 1
    /\ last' = NoEvent
    /\ UNCHANGED <<fn, tz, rd, det, sessions, alerts, active_sessions, camera, is_running,
                   monitor_thread, slack, hw, pc, loc, ctl>>

\* The camera device stops or resumes delivering frames.
CameraFault ==
    /\ hw' = IF hw = "ok" THEN "bad" ELSE "ok"
    /\ last' = NoEvent
    /\ UNCHANGED <<fn, tz, rd, det, sessions, alerts, active_sessions, camera, is_running,
                   monitor_thread, slack, now, pc, loc, ctl>>

\* ------------------------------------------------------------ properties
\* C1: in every reachable state each spot has at most one active session:
\* the store holds at most one session with end_time = null per spot (the
\* map, keyed by spot, holds at most one entry per spot by construction).
C1_OneActiveSessionPerSpot ==
    \A spot \in Spots : Cardinality(ActiveIdsOfSpot(sessions, spot)) <= 1

\* Two sessions of one spot are active at once.
C1_TwoActiveSessions ==
    \E spot \in Spots : Cardinality(ActiveIdsOfSpot(sessions, spot)) = 2

\* C2: for a spot that already has an active session, a detection tick
\* reporting occupied=true never calls start_parking_session: no step of
\* _handle_car_detected adds a session for a spot that has an active one.
C2_NoSecondSession ==
    [][\A t \in Loops :
          (StartSession(t) /\ Len(sessions') > Len(sessions))
              => ActiveIdsOfSpot(sessions, loc[t].i) = {}]_vars

\* A session has been created for a spot of which the store already held an
\* active session.
C2_SecondSessionCreated ==
    /\ last.op = "created"
    /\ ActiveIdsOfSpot(sessions, last.spot) \ {Len(sessions)} # {}

\* The alerts recorded for a session.
AlertsOfSession(as, id) == {k \in 1..Len(as) : as[k].session_id = id}

\* C3: over any number of scans of _check_long_parking_alerts at most one
\* 'long_parking' alert is created and sent for a session: the first scan
\* past the threshold creates it and every later scan skips it.
C3_OneAlertPerSession ==
    \A id \in 1..Len(sessions) : Cardinality(AlertsOfSession(alerts, id)) <= 1

\* A session has been alerted twice.
C3_AlertedTwice ==
    \E id \in 1..Len(sessions) : Cardinality(AlertsOfSession(alerts, id)) = 2

\* C4: when a tick finds a spot with an active session empty, the session the
\* map holds is ended in the store with end_time = now and its duration, the
\* spot leaves the map, and the store holds no active session of the spot.
C4_OccupiedToEmpty ==
    [][last'.op = "ended" =>
          LET spot == last'.spot
              id == active_sessions[spot]
          IN  /\ id # 0
              /\ sessions'[id].end_time = now
              /\ sessions'[id].duration = now - sessions[id].start_time
              /\ active_sessions'[spot] = 0
              /\ ActiveIdsOfSpot(sessions', spot) = {}]_vars

\* A tick has ended the session of a spot, and the store still holds an
\* active session of that spot.
C4_EndedButStillActive ==
    /\ last.op = "ended"
    /\ active_sessions[last.spot] = 0
    /\ ActiveIdsOfSpot(sessions, last.spot) # {}

\* C5: when a tick finds a car on a spot that is not in the map and the
\* store accepts the session, exactly one row is added; it is active, starts
\* now, carries the confidence of the tick's best detection and the image
\* the tick saved (none at the threshold), and the map holds its id.
C5_EmptyToOccupied ==
    [][\A t \in Loops :
          (StartSession(t) /\ sessions' # sessions) =>
              LET spot == loc[t].i
                  id == Len(sessions) + 1
              IN  /\ Len(sessions') = id
                  /\ SubSeq(sessions', 1, Len(sessions)) = sessions
                  /\ sessions'[id].spot_id = spot
                  /\ sessions'[id].start_time = now
                  /\ sessions'[id].end_time = NULL
                  /\ sessions'[id].confidence_score = loc[t].conf
                  /\ loc[t].conf >= CONFIDENCE_THRESHOLD
                  /\ sessions'[id].image_path =
                         IF loc[t].conf > CONFIDENCE_THRESHOLD
                         THEN save_spot_image(t, spot) ELSE NoImage
                  /\ active_sessions' = [active_sessions EXCEPT ![spot] = id]]_vars

\* A session with an evidence image has just been created.
C5_SessionCreated ==
    /\ last.op = "created"
    /\ active_sessions[last.spot] = Len(sessions)
    /\ sessions[Len(sessions)].image_path # NoImage

\* A step of thread t's detection tick that ends it without a frame: the
\* camera handle is absent, or read_frame returns (False, None).
TickWithoutFrame(t) ==
    \/ LoopTop(t) /\ is_running /\ loc[t].due /\ ~camera
    \/ (ReadFirst(t) \/ Reopen(t) \/ Reread(t))
           /\ last'.op \in {"reopen_failed", "reread_failed"}

\* C6: a detection tick in which the camera handle is absent or read_frame
\* returns ok=false checks no spot (the loop goes on to the alert scan) and
\* leaves the map, the sessions and the alerts unchanged; no step inside
\* read_frame changes them either.
C6_TickSkippedWithoutFrame ==
    [][\A t \in Loops :
          /\ TickWithoutFrame(t) => (pc'[t] = "alerts" /\ shared' = shared)
          /\ (ReadFirst(t) \/ Reopen(t) \/ Reread(t)) => shared' = shared]_vars

\* A tick was skipped for want of a frame while a session is active.
C6_SkippedWithActiveSession ==
    /\ last.op \in {"skip_nocam", "reopen_failed", "reread_failed"}
    /\ \E spot \in Spots : active_sessions[spot] # 0
    /\ ActiveIds(sessions) # {}

C8_CameraRecovers ==
    <>[](hw = "ok" /\ is_running) => <>[]camera

\* The loop skips a tick for want of a handle although the device works.
C8_SkippedWithWorkingDevice ==
    /\ last.op = "skip_nocam"
    /\ hw = "ok"
    /\ is_running

\* C9: stop_monitoring ends every session that was active when it was called
\* and releases the camera, and both have happened when the monitor loop
\* exits.
C9_ShutdownBeforeLoopExit ==
    [][/\ (ctl.pc \in {"joining", "ending"} /\ ctl'.pc = "idle") =>
            /\ ~camera'
            /\ \A id \in ctl.atStop : sessions'[id].end_time # NULL
       /\ (\E t \in Loops : pc[t] # "off" /\ pc'[t] = "off") =>
            /\ ctl.pc = "idle"
            /\ ~camera
            /\ ActiveIds(sessions) = {}]_vars

\* stop_monitoring has raised KeyError, every loop thread has exited, and a
\* session is still active.
C9_StopLeavesSessionActive ==
    /\ last.op = "stop_raised"
    /\ \A t \in Loops : pc[t] = "off"
    /\ ActiveIds(sessions) # {}

\* C10: at most one frame acquisition and at most one detector call is in
\* progress at any moment.
C10_ExclusiveCameraAndDetector ==
    /\ camBusy <= 1
    /\ detBusy <= 1

\* The main loop and the monitor loop are both inside the detector.
C10_BothInDetector ==
    /\ pc[Main] = "detect"
    /\ \E t \in Loops : pc[t] \in {"detect", "ident"}

\* C11: accesses to the active-session map are mutually exclusive: while a
\* presentation-layer read (get_active_sessions_data going through the map)
\* is in progress no step changes the map, and so no read ends in the
\* iterator's RuntimeError.
C11_ReadExcludesMutation ==
    [][rd.pc = "iter" =>
          /\ active_sessions' = active_sessions
          /\ rd'.pc # "raised"]_vars

\* A read that was in progress when the monitor loop changed the map, and
\* that failed on the changed dict.
C11_ReadRaised ==
    /\ rd.pc = "raised"
    /\ last.op = "read_raised"

\* The steps in which a call made by an iteration raised.
Raised == {"detector_raised", "start_failed", "scan_raised"}

\* C12: while the running flag is true the monitor loop never terminates: a
\* loop thread leaves its loop only in a step that finds is_running false;
\* a step of an iteration that raises (in the detection tick, the alert scan
\* or the cleanup) puts the thread into the backoff sleep, and the sleep
\* ends at the head of a further iteration.
C12_LoopSurvivesExceptions ==
    [][\A t \in Loops :
          /\ (pc[t] # "off" /\ pc'[t] = "off") => ~is_running
          /\ (last'.op \in Raised /\ pc'[t] # pc[t]) => pc'[t] = "backoff"
          /\ (pc[t] = "backoff" /\ pc'[t] # "backoff") => pc'[t] = "top"]_vars

\* A running loop sleeping after an exception of the alert scan, the store
\* already holding a session that an earlier iteration created.
C12_SleepingAfterException ==
    /\ is_running
    /\ last.op = "scan_raised"
    /\ \E t \in Loops : pc[t] = "backoff"
    /\ \E k \in 1..Len(sessions) : sessions[k].image_path # NoImage

\* C13: detector fault isolation per spot: when the detector raises while a
\* tick checks one spot, the tick goes on: the next configured spot is
\* checked in the same tick (after the last spot the tick completes and the
\* alert scan follows), and the spot of the fault has no transition.
C13_DetectorFaultSkipsOneSpot ==
    [][\A t \in Loops :
          (pc[t] = "detect" /\ pc'[t] # "detect" /\ last'.op = "detector_raised")
          => /\ active_sessions' = active_sessions
             /\ loc[t].i = NumSpots
             /\ pc'[t] = "alerts"]_vars

\* The detector raised on the first spot and the tick was abandoned with a
\* later spot, which has an active session, not checked.
C13_TickAbandoned ==
    /\ last.op = "detector_raised"
    /\ last.spot < NumSpots
    /\ \E t \in Loops : pc[t] = "backoff"
    /\ \E s \in Spots : s > last.spot /\ active_sessions[s] # 0

\* C14: persistence fault on session start: a step in which the session
\* creation fails adds no entry to the map and no row to the store, and the
\* thread sleeps with the detection due again; and a tick that finds a spot
\* occupied which has no entry in the map (as after the failure) attempts
\* the creation: it goes on to start_parking_session for that spot.
C14_FailedStartIsRetried ==
    [][\A t \in Loops :
          /\ (pc[t] = "ident" /\ last'.op = "start_failed")
             => /\ active_sessions' = active_sessions
                /\ active_sessions'[last'.spot] = 0
                /\ sessions' = sessions
                /\ pc'[t] = "backoff"
                /\ loc'[t].due
          /\ (/\ pc[t] = "detect" /\ pc'[t] # "backoff"
              /\ last'.op \in {"still", "new_car"}
              /\ active_sessions[loc[t].i] = 0)
             => /\ last'.op = "new_car"
                /\ pc'[t] = "ident"
                /\ loc'[t].i = loc[t].i]_vars

\* The creation of a session has just failed for a spot: the spot has no
\* entry and no active session, and the thread sleeps before the tick that
\* is due.
C14_StartFailed ==
    /\ last.op = "start_failed"
    /\ active_sessions[last.spot] = 0
    /\ ActiveIdsOfSpot(sessions, last.spot) = {}
    /\ \E t \in Loops : pc[t] = "backoff" /\ loc[t].due

\* C15: startup recovery: once ParkingMonitor is constructed, a spot is in
\* active_sessions if and only if the store holds an active session
\* (end_time = null) for that spot, and the entry carries the id of such a
\* session of that spot.
C15_StartupRecovery ==
    ctl.pc = "idle" /\ last.op = "constructed" =>
        \A s \in Spots :
            /\ active_sessions[s] # 0 <=> ActiveIdsOfSpot(sessions, s) # {}
            /\ active_sessions[s] # 0 =>
                   active_sessions[s] \in ActiveIdsOfSpot(sessions, s)

\* A constructed monitor that recovered one spot as occupied and left the
\* other empty although the store holds an ended session of it.
C15_RecoveredAndEmpty ==
    /\ ctl.pc = "idle" /\ last.op = "constructed"
    /\ \E s \in Spots : active_sessions[s] # 0
    /\ \E s \in Spots :
          /\ active_sessions[s] = 0
          /\ \E k \in 1..Len(sessions) :
                sessions[k].spot_id = s /\ ~IsActive(sessions[k])

\* C16: round trip start -> end: every session that was started and then
\* ended has a stored end_time not before its stored start_time, and a
\* stored duration equal to end_time minus start_time.
C16_RoundTrip ==
    \A k \in 1..Len(sessions) :
        ~IsActive(sessions[k]) =>
            /\ sessions[k].end_time >= sessions[k].start_time
            /\ sessions[k].duration = sessions[k].end_time - sessions[k].start_time

\* A session started by a tick after the first hour and ended by a later
\* tick, hours after its start.
C16_EndedLater ==
    /\ last.op = "ended"
    /\ \E k \in 1..Len(sessions) :
          /\ sessions[k].start_time > 0
          /\ ~IsActive(sessions[k])
          /\ sessions[k].end_time > sessions[k].start_time

\* The raw boxes of a call that pass the filter of detect_cars_in_frame.
Passing(raw) ==
    {i \in 1..Len(raw) :
        raw[i].cls \in car_classes /\ raw[i].conf >= CONFIDENCE_THRESHOLD}

BestConf(raw) ==
    CHOOSE c \in {raw[i].conf : i \in Passing(raw)} :
        \A i \in Passing(raw) : raw[i].conf <= c

\* C17: confidence boundary of is_spot_occupied, for every list of raw
\* detector outputs: occupied=true is returned only if some allow-listed
\* detection has a confidence not below the threshold; an evidence image is
\* captured only if the best confidence is strictly greater than the
\* threshold; and a best confidence equal to the threshold yields
\* occupied=true with no evidence image.
C17_ConfidenceBoundary ==
    det.pc = "returned" =>
        /\ det.res.occ => Passing(det.raw) # {}
        /\ det.res.save =>
               /\ Passing(det.raw) # {}
               /\ BestConf(det.raw) > CONFIDENCE_THRESHOLD
        /\ (Passing(det.raw) # {} /\ BestConf(det.raw) = CONFIDENCE_THRESHOLD)
           => (det.res.occ /\ ~det.res.save)

\* A call whose best allow-listed detection is exactly at the threshold,
\* next to a box of higher confidence that is not a vehicle.
C17_AtThreshold ==
    /\ det.pc = "returned"
    /\ Passing(det.raw) # {}
    /\ BestConf(det.raw) = CONFIDENCE_THRESHOLD
    /\ \E i \in 1..Len(det.raw) :
          det.raw[i].cls \notin car_classes /\ det.raw[i].conf > CONFIDENCE_THRESHOLD
    /\ det.res.occ /\ ~det.res.save

\* C18: best-detection choice, for every non-empty list of filtered
\* detections: the detection is_spot_occupied selects has the maximum
\* confidence of the list, and of several detections sharing the maximum it
\* is the first in the detector's returned order.
C18_FirstMaximum ==
    (det.pc = "returned" /\ detect_cars(det.raw) # <<>>) =>
        LET dets == detect_cars(det.raw)
            maxima == {i \in 1..Len(dets) :
                          \A j \in 1..Len(dets) : dets[j].conf <= dets[i].conf}
            first == CHOOSE i \in maxima : \A j \in maxima : i <= j
        IN  /\ det.best = dets[first]
            /\ det.res.conf = dets[first].conf

\* Two different filtered detections sharing the maximum confidence, the
\* first of which was selected.
C18_TieSelectsFirst ==
    /\ det.pc = "returned"
    /\ Len(detect_cars(det.raw)) = 2
    /\ detect_cars(det.raw)[1].conf = detect_cars(det.raw)[2].conf
    /\ detect_cars(det.raw)[1] # detect_cars(det.raw)[2]
    /\ det.best = detect_cars(det.raw)[1]

\* C19: evidence is captured only at session start: a detection tick that
\* finds an already-occupied spot still occupied writes no evidence image
\* (so a session has at most the one image of its start).
C19_NoImageWhileOccupied ==
    last.op = "still" => last.img = NoImage

\* A tick that found a spot still occupied and wrote another image, the
\* session of the spot already having the image of its start.
C19_SecondImage ==
    /\ last.op = "still"
    /\ last.img # NoImage
    /\ active_sessions[last.spot] # 0
    /\ sessions[active_sessions[last.spot]].image_path # NoImage

\* The steps that end sessions: Occupied -> Empty, and shutdown.
Ending == {"ended", "stopped"}

\* C20: active sessions are immutable: no step changes the stored fields of
\* a session that is active (spot_id, start_time, confidence, image path),
\* the only change to its row is the setting of end_time and duration by a
\* step that ends sessions, and as long as it stays active its in-memory
\* entry stays as it is.
C20_ActiveSessionsImmutable ==
    [][\A id \in ActiveIds(sessions) :
          /\ sessions'[id].spot_id = sessions[id].spot_id
          /\ sessions'[id].start_time = sessions[id].start_time
          /\ sessions'[id].confidence_score = sessions[id].confidence_score
          /\ sessions'[id].image_path = sessions[id].image_path
          /\ sessions'[id] # sessions[id] =>
                 (~IsActive(sessions'[id]) /\ (last'.op \in Ending \/ ctl.pc = "ending"))
          /\ IsActive(sessions'[id]) =>
                 \A s \in Spots : active_sessions[s] = id => active_sessions'[s] = id]_vars

\* A session is created for a spot whose entry holds another session that
\* is still active: the entry of that session is replaced.
C20_EntryReplaced ==
    /\ last.op = "created"
    /\ \E id \in ActiveIdsOfSpot(sessions, last.spot) :
          /\ id # active_sessions[last.spot]
          /\ sessions[id].image_path # NoImage

\* The attempted deliveries of a returned send_parking_alert that succeeded.
Delivered ==
    {k \in 1..Len(fn.out.attempts) :
        \/ fn.out.attempts[k] = "image" /\ fn.in.image = "ok"
        \/ fn.out.attempts[k] = "text" /\ fn.in.text = "ok"}

\* C21: notification fallback: send_parking_alert (with a client and a
\* message it could prepare) for an existing evidence image attempts the
\* image-attached delivery first and, if that fails, exactly one text-only
\* delivery; for every input it returns true if and only if one of the
\* deliveries it attempted succeeded, and it never raises to the caller.
C21_NotificationFallback ==
    fn.pc = "returned" =>
        /\ ~fn.out.raised
        /\ fn.out.ret <=> Delivered # {}
        /\ (fn.in.client /\ fn.in.exists /\ fn.in.prep = "ok") =>
               fn.out.attempts = IF fn.in.image = "ok" THEN <<"image">>
                                 ELSE <<"image", "text">>

\* The upload of the image failed with an exception that is not a
\* SlackApiError, and the text-only message was delivered.
C21_FellBackToText ==
    /\ fn.pc = "returned"
    /\ fn.in.client /\ fn.in.exists
    /\ fn.in.image = "error"
    /\ fn.out.attempts = <<"image", "text">>
    /\ fn.out.ret

\* The alerts marked as delivered.
Marked(as) == {k \in 1..Len(as) : as[k].sent_to_slack}

\* C22: an alert record is marked delivered only on transport success:
\* every alert that a step marks as delivered belongs to a session for
\* which send_parking_alert returned True in that step (so every marked
\* alert of a reachable state does), the alerts marked before stay as they
\* are, and a scan in which no delivery succeeded marks no alert.
C22_MarkedOnlyOnSuccess ==
    [][/\ \A k \in Marked(alerts') \ Marked(alerts) :
             /\ k > Len(alerts)
             /\ alerts'[k].session_id \in last'.ok
       /\ Marked(alerts) \subseteq Marked(alerts')
       /\ last'.ok = {} => Marked(alerts') = Marked(alerts)]_vars

\* A scan with two overstaying sessions in which the delivery succeeded for
\* one and failed for the other: only the first has a marked alert.
C22_OneOfTwoDelivered ==
    /\ last.op = "scanned"
    /\ Cardinality(last.ok) = 1
    /\ Cardinality(get_long_parking_sessions(sessions, now)) = 2
    /\ Marked(alerts) # {}
    /\ \A k \in Marked(alerts) : alerts[k].session_id \in last.ok

\* C23: alerts are raised only for overstaying active sessions: every
\* alert a scan creates refers to a session that at the time of the scan is
\* active and has been parked for strictly more than the overstay threshold.
C23_AlertsOnlyForOverstay ==
    [][\A k \in (Len(alerts) + 1)..Len(alerts') :
          /\ IsActive(sessions[alerts'[k].session_id])
          /\ now - sessions[alerts'[k].session_id].start_time
                 > SLACK_ALERT_THRESHOLD]_vars

\* A session that has an alert although it has not been parked for longer
\* than the threshold, on a host west of UTC.
C23_AlertedEarly ==
    /\ tz < 0
    /\ last.op = "scanned"
    /\ \E k \in 1..Len(alerts) :
          /\ alerts[k].session_id \in last.ok
          /\ now - sessions[alerts[k].session_id].start_time
                 <= SLACK_ALERT_THRESHOLD

\* C25: retention result: one run of cleanup_old_images with n stored files
\* and maximum m deletes nothing when n <= m; when n > m and all deletions
\* succeed it deletes exactly n - m files, leaving exactly m, and every
\* deleted file has a modification time not later than that of every
\* remaining file.
C25_RetentionResult ==
    fn.pc = "returned" =>
        LET n == Len(fn.in.files)
            kept == (1..n) \ fn.out
        IN  /\ n <= fn.in.m => fn.out = {}
            /\ (n > fn.in.m /\ fn.in.fails = {}) =>
                   /\ Cardinality(fn.out) = n - fn.in.m
                   /\ Cardinality(kept) = fn.in.m
                   /\ \A d \in fn.out : \A k \in kept :
                          fn.in.files[d] <= fn.in.files[k]

\* A run over three files, two of them of the oldest time, with a maximum
\* of one: both are removed and the newest file stays.
C25_OldestRemoved ==
    /\ fn.pc = "returned"
    /\ Len(fn.in.files) = 3 /\ fn.in.m = 1 /\ fn.in.fails = {}
    /\ Cardinality(fn.out) = 2
    /\ \E k \in 1..3 : k \notin fn.out /\ \A d \in fn.out : fn.in.files[d] < fn.in.files[k]

\* C32: retention is best effort: when os.remove fails for a file selected
\* for deletion, cleanup_old_images still returns and has removed every
\* other selected file whose removal did not fail, those after the failing
\* one in the order of deletion included.
C32_BestEffortRemoval ==
    fn.pc = "returned" =>
        LET selected == cleanup_old_images(fn.in.files, fn.in.m, {})
        IN  /\ fn.out \subseteq selected
            /\ \A i \in selected \cap fn.in.fails :
                  \A j \in selected \ fn.in.fails : j \in fn.out

\* The removal of the oldest file failed and a newer file, also selected,
\* has been removed.
C32_RemovedAfterFailure ==
    /\ fn.pc = "returned"
    /\ \E i \in fn.in.fails, j \in fn.out :
         /\ i \in cleanup_old_images(fn.in.files, fn.in.m, {})
         /\ i \in SortedBefore(fn.in.files, j)

\* C24: retention liveness: while the monitor loop keeps running the image
\* cleanup runs on an hourly cadence, so that whenever the number of stored
\* images exceeds the configured maximum it is eventually brought back to
\* at most the maximum.
C24_RetentionLiveness ==
    (fn.pc = "loop" /\ Len(fn.files) > MAX_STORED_IMAGES)
        ~> (fn.pc = "loop" /\ Len(fn.files) <= MAX_STORED_IMAGES)

\* The loop has passed a full hour without an iteration starting in its
\* first second, and the directory holds more images than the maximum, one
\* of them older than an hour.
C24_HourPassedWithoutCleanup ==
    /\ fn.pc = "loop"
    /\ fn.skipped
    /\ Len(fn.files) > MAX_STORED_IMAGES
    /\ fn.files[1] < now

\* C26: one inline retry per call: a call of read_frame closes and re-opens
\* the camera at most once and reads at most once more after re-opening,
\* whatever the way the first read failed: the read after re-opening is
\* never followed by another stop_camera and start_camera in the same call.
C26_OneRetryPerCall ==
    [][\A t \in Threads : pc[t] = "reread" => pc'[t] # "reopen"]_vars

\* A call of read_frame is stopping and starting the camera for the second
\* time.
C26_SecondReopen ==
    \E t \in Threads : pc[t] = "reopen" /\ last = Event("reopen_again", 0)

\* C27: detection cadence: a detection tick acquires one frame and evaluates
\* every configured spot against it (once the spots are being evaluated no
\* other frame is read, and the tick ends only after the last spot), and the
\* starts of two consecutive ticks are at least DETECTION_INTERVAL apart
\* (after a tick has started nothing but the passing of the interval makes
\* the next one due).
C27_DetectionCadence ==
    [][\A t \in Loops :
          /\ pc[t] \in {"detect", "ident"} =>
                 \/ pc'[t] \in {"detect", "ident"}
                 \/ pc'[t] = "alerts" /\ loc[t].i = NumSpots
          /\ (pc'[t] # "off" /\ ~loc[t].due /\ loc'[t].due) => pc'[t] = pc[t]
      ]_vars

\* A tick has been abandoned before its last spot, and the next one is due
\* although the interval has not passed since it started.
C27_TickCutShort ==
    \E t \in Loops :
        /\ pc[t] = "backoff"
        /\ loc[t].due
        /\ last.op \in {"detector_raised", "start_failed"}
        /\ last.spot < NumSpots

\* C28: cooperative cancellation terminates: once stop_monitoring has
\* cleared is_running, a monitor loop thread whose steps each terminate
\* leaves its loop, unless a start_monitoring sets the flag again first.
C28_CancellationTerminates ==
    \A t \in Loops :
        (~is_running /\ pc[t] # "off") ~> (is_running \/ pc[t] = "off")

\* stop_monitoring has cleared the flag and is waiting in join, and the
\* monitor thread has just left its loop.
C28_LoopExited ==
    /\ ~is_running
    /\ ctl.pc = "joining"
    /\ monitor_thread # 0
    /\ pc[monitor_thread] = "off"
    /\ last = Event("exit", 0)

\* C29: the latest-frame buffer is a single slot guarded by frame_lock: the
\* frame the buffer shows changes only in a step of the writer holding the
\* lock, and becomes the frame written; it is a private copy, so at all
\* times it is the frame of the last completed write whatever the main loop
\* does to its own array; and a generator reads it holding the lock and
\* sends the frame of the last completed write.
C29_FrameMailbox ==
    [][fn.pc = "mailbox" =>
          /\ Shown' # Shown => fn.lock = Writer
          /\ Shown' = fn'.latest
          /\ \A r \in Readers :
                (fn.rds[r].pc = "locked" /\ fn'.rds[r].pc = "yielded") =>
                    fn.lock = r /\ fn'.rds[r].got = fn.latest
      ]_vars

\* A generator has sent the second frame, the last one written, while the
\* other generator, which sent the first, sleeps.
C29_LatestObserved ==
    /\ fn.pc = "mailbox"
    /\ \E r, q \in Readers :
         /\ fn.rds[r].pc = "yielded"
         /\ fn.rds[r].got = fn.latest
         /\ fn.latest > 1
         /\ fn.rds[q].pc = "idle"
         /\ fn.rds[q].got = 1

\* C30: fingerprint determinism: the vehicle fingerprint is a deterministic
\* function of the pixels of the region it is computed from: two
\* computations over the same frame and the same detection box yield the
\* same fingerprint.
C30_FingerprintDeterministic ==
    (fn.pc = "ident" /\ Len(fn.ids) = 2) => fn.ids[1] = fn.ids[2]

\* Two computations over one frame and one box of no width have given two
\* identifiers.
C30_TwoIdentifiers ==
    /\ fn.pc = "ident"
    /\ fn.bbox.x1 = fn.bbox.x2
    /\ Len(fn.ids) = 2
    /\ fn.ids[1].kind = "uuid"
    /\ fn.ids[1].v # fn.ids[2].v

\* C31: coordinate translation: every detection detect_cars_in_spot returns
\* for a spot with crop origin (x, y) has the detector's box in the
\* coordinates of the region, moved by exactly (x, y): (x1 + x, y1 + y,
\* x2 + x, y2 + y); there is one for each box of the detector.
C31_CoordinateTranslation ==
    (fn.pc = "spot" /\ fn.done) =>
        /\ Len(fn.out) = Len(fn.local)
        /\ \A k \in 1..Len(fn.out) :
              /\ fn.out[k].x1 = fn.local[k].x1 + fn.spot.x
              /\ fn.out[k].y1 = fn.local[k].y1 + fn.spot.y
              /\ fn.out[k].x2 = fn.local[k].x2 + fn.spot.x
              /\ fn.out[k].y2 = fn.local[k].y2 + fn.spot.y

\* A box has been returned for a spot whose origin is not (0, 0), with a
\* patrol region that lies inside the spot's region.
C31_BoxTranslated ==
    /\ fn.pc = "spot"
    /\ fn.done
    /\ Len(fn.out) = 1
    /\ fn.spot.x > 0 /\ fn.spot.y > 0
    /\ fn.patrol.set /\ fn.patrol.x > 0 /\ fn.patrol.x < RoiSide
    /\ fn.out[1].x1 = fn.raw[1].x1 + fn.patrol.x + fn.spot.x

\* C33: at most one monitor loop runs at any time: over any interleaving
\* of start_monitoring and stop_monitoring at most one thread is executing
\* _monitor_loop.
C33_AtMostOneLoop ==
    Cardinality({t \in Loops : pc[t] # "off"}) <= 1

\* Two threads execute _monitor_loop, and is_running is true for both.
C33_TwoLoopsRunning ==
    /\ is_running
    /\ ctl.pc = "idle"
    /\ \A t \in Loops : pc[t] # "off"

\* C34: after stop_monitoring has returned no session is active and none
\* becomes active until the next start_monitoring: when it returns the map
\* is empty and the store holds no session with end_time = null, and the
\* step that follows its return, unless it is a start_monitoring, leaves
\* both so.
C34_NoSessionAfterStop ==
    [][/\ (ctl.pc # "idle" /\ ctl'.pc = "idle" /\ last'.op = "stopped") =>
              ActiveIds(sessions') = {} /\ MapKeys' = {}
       /\ (ctl.pc = "idle" /\ ctl'.pc = "idle" /\ last.op = "stopped") =>
              /\ ActiveIds(sessions') \subseteq ActiveIds(sessions)
              /\ MapKeys' \subseteq MapKeys
      ]_vars

\* stop_monitoring has returned, monitoring has not been started again, and
\* the loop thread that outlived the join has just created a session.
C34_CreatedAfterStop ==
    /\ ~is_running
    /\ ctl.pc = "idle"
    /\ last.op = "created"
    /\ MapKeys # {}
    /\ \E t \in Loops : pc[t] # "off"

\* C35: a session is ended at most once: once its end_time is set, no later
\* operation changes its end_time, its duration or any other field.
C35_EndedAtMostOnce ==
    [][\A id \in 1..Len(sessions) :
          sessions[id].end_time # NULL => sessions'[id] = sessions[id]]_vars

\* Both callers have called end_parking_session for the same session, at
\* different times.
C35_EndedTwice ==
    /\ fn.pc = "ending"
    /\ fn.c["loop"].pc = "stored"
    /\ fn.c["stop"].pc = "stored"
    /\ fn.c["loop"].id = fn.c["stop"].id
    /\ sessions[fn.c["loop"].id].end_time > 0
    /\ last.op = "ended"

\* C36: the map agrees with the store: after startup a spot is a key of
\* active_sessions with session id s if and only if the store's session s
\* belongs to that spot and has end_time = null, also after recovery from a
\* store holding several active sessions for one spot.
C36_MapAgreesWithStore ==
    (ctl.pc = "idle" /\ last.op = "constructed") =>
        \A spot \in Spots : \A id \in 1..Len(sessions) :
            active_sessions[spot] = id
                <=> (sessions[id].spot_id = spot /\ IsActive(sessions[id]))

\* A monitor constructed over a store with two active sessions of one spot:
\* the map holds one of them and the other is active in the store only.
C36_ActiveOutsideMap ==
    /\ ctl.pc = "idle" /\ last.op = "constructed"
    /\ \E spot \in Spots : \E id \in ActiveIdsOfSpot(sessions, spot) :
          /\ active_sessions[spot] # 0
          /\ active_sessions[spot] # id
          /\ active_sessions[spot] \in ActiveIdsOfSpot(sessions, spot)

\* C37: image cleanup never deletes the evidence image of a session that
\* is still active: in every reachable state the file an active session
\* refers to exists.
C37_EvidenceKept ==
    (fn.pc = "evidence" /\ fn.ref # NoImage) =>
        \E i \in 1..Len(fn.dir) : fn.dir[i].name = fn.ref

\* The cleanup has just removed the image of the active session, the oldest
\* file, and has kept MAX_STORED_IMAGES newer files.
C37_EvidenceRemoved ==
    /\ fn.pc = "evidence"
    /\ last.op = "cleaned"
    /\ fn.ref # NoImage
    /\ Len(fn.dir) = MAX_STORED_IMAGES
    /\ \A i \in 1..Len(fn.dir) : fn.dir[i].name > fn.ref

\* C38: without a camera the main loop clears the latest-frame buffer with
\* update_camera_frame(None): when the call is over the buffer is None, so
\* that the stream serves the fallback image, and the call has not raised.
C38_BufferCleared ==
    [][(fn.pc = "mailbox" /\ fn.w.pc = "locked" /\ fn.w.none
            /\ fn'.w.pc = "idle") =>
          /\ fn'.camera_frame = "none"
          /\ last'.op # "update_raised"
      ]_vars

\* update_camera_frame(None) has raised and the buffer still holds the last
\* frame of the camera.
C38_StaleFrameKept ==
    /\ fn.pc = "mailbox"
    /\ last.op = "update_raised"
    /\ fn.camera_frame # "none"
    /\ Shown = fn.latest
    /\ fn.latest # NoFrame

\* C39: retry of an aborted detection tick: when _check_all_spots raises,
\* last_detection_time is not advanced: the tick is due when the thread goes
\* to its backoff sleep and still due when the sleep is over, and a loop
\* head that finds the tick due and a camera handle starts the tick.  When
\* the tick is skipped for want of a camera handle, last_detection_time is
\* advanced: the tick is not due afterwards, and a loop head that finds the
\* tick not due starts none.
C39_AbortedTickRetried ==
    [][\A t \in Loops :
          /\ (pc[t] \in {"detect", "ident"} /\ pc'[t] = "backoff") => loc'[t].due
          /\ (pc[t] = "backoff" /\ pc'[t] = "top") => loc'[t].due = loc[t].due
          /\ (pc[t] = "top" /\ pc'[t] \notin {"top", "off"}) =>
                 /\ (loc[t].due /\ camera) => pc'[t] = "read"
                 /\ (loc[t].due /\ ~camera) =>
                        pc'[t] = "alerts" /\ ~loc'[t].due
                 /\ ~loc[t].due => pc'[t] = "alerts" /\ ~loc'[t].due
      ]_vars

\* The detector has raised at the last spot of a tick: the thread sleeps and
\* the tick is due again.
C39_DueAfterException ==
    /\ last.op = "detector_raised"
    /\ last.spot = NumSpots
    /\ \E t \in Loops : pc[t] = "backoff" /\ loc[t].due

\* ------------------------------------------------------- specifications
\* The engine: the monitor loops and the callers of start_monitoring and
\* stop_monitoring, with a camera device that either works or does not for
\* the whole run and no Slack client.  The clock stands still (the runs are
\* shorter than the alert threshold).
Init ==
    /\ InitAny
    /\ slack = FALSE

Next ==
    \/ \E t \in Loops : ReadFirst(t)
    \/ \E t \in Loops : Reopen(t)
    \/ \E t \in Loops : Reread(t)
    \/ \E t \in Loops : LoopTop(t)
    \/ \E t \in Loops : CheckSpot(t)
    \/ \E t \in Loops : StartSession(t)
    \/ \E t \in Loops : CheckAlerts(t)
    \/ \E t \in Loops : Backoff(t)
    \/ StartMonitoring
    \/ StartMonitoringThread
    \/ StopMonitoring
    \/ StopAfterJoin
    \/ StopEndSession
    \/ \E t \in Loops : IntervalElapses(t)

Spec == Init /\ [][Next]_vars

\* The camera: one monitor loop that is started and never stopped, with a
\* camera device that fails and recovers at any moment.
InitCamera ==
    /\ InitAny
    /\ slack = FALSE

LoopStep(t) ==
    \/ ReadFirst(t)
    \/ Reopen(t)
    \/ Reread(t)
    \/ LoopTop(t)
    \/ CheckSpot(t)
    \/ StartSession(t)
    \/ CheckAlerts(t)
    \/ Backoff(t)

NextCamera ==
    \/ \E t \in Loops : LoopStep(t)
    \/ StartMonitoring
    \/ StartMonitoringThread
    \/ \E t \in Loops : IntervalElapses(t)
    \/ CameraFault

SpecCamera == InitCamera /\ [][NextCamera]_vars

\* The same with a monitor loop thread that is scheduled again and again and
\* a detection interval that runs out: the thread library runs a runnable
\* thread, and time.sleep returns.
SpecCameraFair ==
    /\ SpecCamera
    /\ \A t \in Loops : WF_vars(LoopStep(t))
    /\ \A t \in Loops : WF_vars(IntervalElapses(t))

\* The clock: one monitor loop with a working camera, hours passing, and a
\* Slack client or none.
InitClock ==
    /\ InitAny
    /\ hw = "ok"

NextClock ==
    \/ \E t \in Loops : ReadFirst(t)
    \/ \E t \in Loops : LoopTop(t)
    \/ \E t \in Loops : CheckSpot(t)
    \/ \E t \in Loops : StartSession(t)
    \/ \E t \in Loops : CheckAlerts(t)
    \/ \E t \in Loops : Backoff(t)
    \/ StartMonitoring
    \/ StartMonitoringThread
    \/ \E t \in Loops : IntervalElapses(t)
    \/ Tick

SpecClock == InitClock /\ [][NextClock]_vars

\* The clock on any host: the same with a Slack client and a local time
\* that is behind, equal to, or ahead of UTC.
InitZone ==
    /\ InitHost
    /\ hw = "ok"
    /\ slack = TRUE

SpecZone == InitZone /\ [][NextClock]_vars

\* The application: the main loop next to one monitor loop, with a camera
\* device that either works or does not.
InitApp ==
    /\ InitAny
    /\ slack = FALSE

NextApp ==
    \/ MainTop
    \/ MainDetect
    \/ \E t \in Threads : ReadFirst(t)
    \/ \E t \in Threads : Backoff(t)
    \/ \E t \in Loops : LoopTop(t)
    \/ \E t \in Loops : CheckSpot(t)
    \/ \E t \in Loops : StartSession(t)
    \/ \E t \in Loops : CheckAlerts(t)
    \/ StartMonitoring
    \/ StartMonitoringThread
    \/ \E t \in Loops : IntervalElapses(t)

SpecApp == InitApp /\ [][NextApp]_vars

\* The web interface: a request thread reading the active sessions next to
\* one monitor loop with a working camera.
InitWeb ==
    /\ InitAny
    /\ slack = FALSE
    /\ hw = "ok"

NextWeb ==
    \/ ReaderStart
    \/ ReaderNext
    \/ \E t \in Loops : ReadFirst(t)
    \/ \E t \in Loops : LoopTop(t)
    \/ \E t \in Loops : CheckSpot(t)
    \/ \E t \in Loops : StartSession(t)
    \/ \E t \in Loops : CheckAlerts(t)
    \/ \E t \in Loops : Backoff(t)
    \/ StartMonitoring
    \/ StartMonitoringThread
    \/ \E t \in Loops : IntervalElapses(t)

SpecWeb == InitWeb /\ [][NextWeb]_vars

\* The detector: one call of is_spot_occupied for every list of boxes the
\* model can return.
SpecDetector == InitDetector /\ [][CallIsSpotOccupied]_vars

\* The notifier: one call of send_parking_alert for every way its Slack
\* calls can end.
SpecNotifier == InitNotifier /\ [][CallSendParkingAlert]_vars

\* Retention: one run of cleanup_old_images for every image directory, every
\* maximum and every set of files that cannot be removed.
SpecCleanup == InitCleanup /\ [][CallCleanupOldImages]_vars

\* Retention over time: the monitor loop running for hours, each iteration
\* of which is scheduled.
SpecRetention ==
    /\ InitRetention
    /\ [][LoopIteration]_vars
    /\ WF_vars(LoopIteration)

\* Stopping: start_monitoring has returned, with a working camera, and the
\* monitor loop it started runs until stop_monitoring is called; no
\* start_monitoring follows.  The loop thread, when it can take a step, is
\* scheduled again and again (the thread library runs a runnable thread,
\* and time.sleep returns).
InitStop ==
    /\ sessions \in InitStores
    /\ alerts = <<>>
    /\ active_sessions \in _load_active_sessions(sessions)
    /\ camera = TRUE
    /\ is_running = TRUE
    /\ monitor_thread = 1
    /\ slack = FALSE
    /\ hw = "ok"
    /\ now = 0
    /\ tz = 0
    /\ pc = [t \in Threads |-> IF t = Main \/ t = 1 THEN "top" ELSE "off"]
    /\ loc = [t \in Threads |-> NoLoc]
    /\ ctl = CtlIdle
    /\ rd = NoRead
    /\ det = NoCall
    /\ fn = NoFn
    /\ last = NoEvent

NextStop ==
    \/ \E t \in Loops : ReadFirst(t)
    \/ \E t \in Loops : Reopen(t)
    \/ \E t \in Loops : Reread(t)
    \/ \E t \in Loops : LoopTop(t)
    \/ \E t \in Loops : CheckSpot(t)
    \/ \E t \in Loops : StartSession(t)
    \/ \E t \in Loops : CheckAlerts(t)
    \/ \E t \in Loops : Backoff(t)
    \/ StopMonitoring
    \/ StopAfterJoin
    \/ StopEndSession
    \/ \E t \in Loops : IntervalElapses(t)

SpecStop ==
    /\ InitStop
    /\ [][NextStop]_vars
    /\ \A t \in Loops : WF_vars(LoopStep(t))

\* The latest-frame buffer: the main loop publishing frames next to the
\* generators of the video stream.
NextMailbox ==
    \/ UpdateCameraFrameCall
    \/ UpdateCameraFrameAcquire
    \/ UpdateCameraFrameStore
    \/ \E r \in Readers : GenerateFramesAcquire(r)
    \/ \E r \in Readers : GenerateFramesYield(r)
    \/ \E r \in Readers : GenerateFramesResume(r)

SpecMailbox == InitMailbox /\ [][NextMailbox]_vars

\* The fingerprint: generate_car_identifier called twice for every frame and
\* every detection box.
SpecFingerprint == InitFingerprint /\ [][CallGenerateCarIdentifier]_vars

\* Detection in one spot: one call of detect_cars_in_spot for every spot
\* origin, patrol region and box of the model.
SpecSpotDetection == InitSpot /\ [][CallDetectCarsInSpot]_vars

\* Ending: two threads ending sessions at the same time, while hours pass.
NextEnding ==
    \/ \E k \in Callers : EndSessionRead(k)
    \/ \E k \in Callers : EndSessionStore(k)
    \/ \E k \in Callers : EndSessionDelete(k)
    \/ Tick

SpecEnding == InitEnding /\ [][NextEnding]_vars

\* Evidence: images being saved and cleaned up while a session is active.
NextEvidence ==
    \/ SaveSessionImage
    \/ SaveTickImage
    \/ RunCleanup
    \/ SessionEnds
    \/ Tick

SpecEvidence == InitEvidence /\ [][NextEvidence]_vars

\* Startup: the construction of ParkingMonitor over any store an earlier run
\* left behind.
SpecStartup == InitUnbuilt /\ [][Construct]_vars

=============================================================================
